---- MODULE Spec2Model ----
(***************************************************************************)
(* A model of the job-processing core of tableau-ppt-export:               *)
(*   - JobService, the Redis list/set job queue and its worker loops       *)
(*     (src/src/services/ppt-config.service.js, class JobService) with the *)
(*     processor processPptExport that is handed to startWorker;           *)
(*   - the BullMQ worker processor of initWorker (src/unnamed/part_000);   *)
(*   - TableauService.getValidToken / authenticate (token single-flight);  *)
(*   - TableauService.fetchViewsDataInParallel (batched view fetch).       *)
(* Every await of the JavaScript code is a step boundary: a Redis command  *)
(* or an HTTP exchange is atomic, and the code between two awaits runs     *)
(* without interleaving (one event loop per process, Redis is shared).     *)
(* Each subsystem has its own specification (SpecJob, SpecBull, SpecAuth,  *)
(* SpecFetch, SpecExport, SpecWorker, SpecCred, SpecShutdown); the         *)
(* variables of the other subsystems stay at their initial value.          *)
(***************************************************************************)
EXTENDS Integers, Sequences, FiniteSets, TLC

VARIABLES
  \* ---- JobService (Redis keyspace job:*) ----
  store,        \* job:<id> string keys: id -> job record, or NoJob
  queue,        \* job:queue, the list of waiting ids
  processing,   \* job:processing, the set of leased ids
  nextId,       \* ids handed out by _generateJobId so far
  cfgAttempts,  \* this.maxAttempts (QUEUE_ATTEMPTS)
  loop,         \* the processLoop invocations: position and locals
  cleaner,      \* the running _cleanupOrphanedJobs call: position and locals
  now,          \* Date.now(), in seconds
  ticks,        \* how often the clock advanced
  emailed,      \* history: jobs for which a failure e-mail was requested
  retryAt,      \* history: when failJobById pushed the id back for a retry
  leasedAt,     \* history: when the id was last added to job:processing
  delivered,    \* history: the report emails sent for each job
  \* ---- BullMQ queue "tableau-ppt-export" and its worker ----
  bjobs,        \* bull:Q:<id> hashes and the list or set each id is in
  bproc,        \* the processor invocation of each active job
  breq,         \* the POST /jobs/:jobId/retry request being served
  bclock,       \* Date.now() in seconds, and how often it advanced
  bhist,        \* history: e-mails requested, causes, retries asked for
  \* ---- TableauService token cache ----
  authCache,    \* this.authCache: site -> {token, expiresAt}
  authPromises, \* this.authPromises: site -> pending authPromise
  authCalls,    \* the authenticate() calls made so far
  caller,       \* the getValidToken callers
  authClock,    \* Date.now() in seconds, and how often it advanced
  \* ---- TableauService.fetchViewsDataInParallel ----
  fetch,        \* arguments and position of the call
  ftask,        \* the per-view task of each view config
  fresults,     \* the Map results
  \* ---- ExportPptService.processExport ----
  exp,          \* position, locals and outcome of the processExport call
  \* ---- JobService.startWorker / stopWorker ----
  wk,           \* isProcessing, the loops started so far, the jobs waiting
  \* ---- TableauService._getCredentialsForSite ----
  cred,         \* process.env, the site signed in to, the credentials used
  \* ---- server.js gracefulShutdown ----
  shut,         \* the web process: listener, close callbacks, timers, exit code
  drain,        \* the worker process at shutdown: in-flight job, Redis, exit code
  \* ---- health.controller readinessCheck ----
  ready,        \* Redis, the getQueueStats call, the response
  \* ---- DataTransformerService ----
  tf,           \* the schema, the CSV header and rows, the result
  \* ---- DataTransformerService._parseCsvToRows ----
  csv,          \* the grid, its CSV text, the rows parsed
  \* ---- buildTableFromConfig ----
  asm,          \* the headers and rows given, the table emitted
  \* ---- getPptConfig of the two engines ----
  deck          \* the manifest, the view data, the slides built so far

jobVars == <<store, queue, processing, nextId, cfgAttempts, loop, cleaner,
             now, ticks, emailed, retryAt, leasedAt, delivered>>
bullVars == <<bjobs, bproc, breq, bclock, bhist>>
authVars == <<authCache, authPromises, authCalls, caller, authClock>>
fetchVars == <<fetch, ftask, fresults>>

restVars == <<exp, wk, cred, shut, drain>>
dataVars == <<ready, tf, csv, asm, deck>>

vars == <<jobVars, bullVars, authVars, fetchVars, restVars, dataVars>>

----------------------------------------------------------------------------
\* Bounds of the model.
MaxJobs == 1
MaxLoops == 2
MaxTicks == 1
MaxQueueAttempts == 2

\* Program constants, in seconds (the clock of the model counts seconds).
MaxProcessingTimeSec == 1800
JOB_TTL_SECONDS == 86400

\* A job that was queued before the jobs the model adds (InitFifo).
OlderJob == MaxJobs + 1
JobIds == 1..OlderJob
Loops == 1..MaxLoops
NoJob == [status |-> "none"]
NoTime == -1
TickSteps == {MaxProcessingTimeSec + 1, JOB_TTL_SECONDS}

\* Exponential backoff of the queue options: delay * 2^(n-1), delay = 1 s.
BackoffBaseSec == 1
BackoffSec(n) == BackoffBaseSec * (2 ^ (n - 1))

----------------------------------------------------------------------------
\* JobService helpers.

\* getJobById: the record under job:<id>, or null (NoJob) when the key does
\* not exist; a key written with EX is gone once its time to live has passed.
getJobById(jobId) ==
  IF store[jobId] # NoJob /\ now >= store[jobId].expireAt THEN NoJob
  ELSE store[jobId]

\* redis.set(key, json, "EX", 24 * 60 * 60): the write restarts the TTL.
RedisSet(jobId, job) ==
  [store EXCEPT ![jobId] = [job EXCEPT !.expireAt = now + JOB_TTL_SECONDS]]

\* addJob: the record of a new job.
NewJob ==
  [status |-> "pending", attempts |-> 0, maxAttempts |-> cfgAttempts,
   startedAt |-> NoTime, error |-> "none", expireAt |-> now + JOB_TTL_SECONDS]

\* redis.lpush, which no code of JobService calls.
lpush(list, jobId) == <<jobId>> \o list

\* redis.rpush(this.queueKey, jobId)
rpush(list, jobId) == Append(list, jobId)

\* failJobById: const shouldRetry = attempts < job.maxAttempts
shouldRetry(attempts, job) == attempts < job.maxAttempts

IdleLoop ==
  [pc |-> "idle", jid |-> 0, snap |-> NoJob, att |-> 0, retry |-> FALSE,
   err |-> "none"]
IdleCleaner == [pc |-> "idle", todo |-> {}, jid |-> 0, snap |-> NoJob, at |-> 0]

InitJob ==
  /\ store = [j \in JobIds |-> NoJob]
  /\ queue = <<>>
  /\ processing = {}
  /\ nextId = 1
  /\ cfgAttempts \in 1..MaxQueueAttempts
  /\ loop = [l \in Loops |-> IdleLoop]
  /\ cleaner = IdleCleaner
  /\ now = 0
  /\ ticks = 0
  /\ emailed = {}
  /\ retryAt = [j \in JobIds |-> NoTime]
  /\ leasedAt = [j \in JobIds |-> NoTime]
  /\ delivered = [j \in JobIds |-> 0]

\* addJob: SET job:<id>, then RPUSH job:queue. Nothing else knows the fresh id
\* between the two commands, so they are one step.
addJob ==
  /\ nextId <= MaxJobs
  /\ store' = [store EXCEPT ![nextId] = NewJob]
  /\ queue' = rpush(queue, nextId)
  /\ nextId' = nextId + 1
  /\ UNCHANGED <<bullVars, authVars, fetchVars, restVars, dataVars>>
  /\ UNCHANGED <<processing, cfgAttempts, loop, cleaner, now, ticks, emailed,
                 retryAt, leasedAt,
                 delivered>>

Goto(l, pc) == [loop EXCEPT ![l].pc = pc]
Finish(l) == [loop EXCEPT ![l] = IdleLoop]

\* _getNextJobFromQueue: LPOP job:queue (an empty list sends the loop to
\* sleep, which changes nothing).
GetNextJob_lpop(l) ==
  /\ loop[l].pc = "idle"
  /\ queue # <<>>
  /\ queue' = Tail(queue)
  /\ loop' = [loop EXCEPT ![l].pc = "sadd", ![l].jid = Head(queue)]
  /\ retryAt' = [retryAt EXCEPT ![Head(queue)] = NoTime]
  /\ UNCHANGED <<bullVars, authVars, fetchVars, restVars, dataVars>>
  /\ UNCHANGED <<store, processing, nextId, cfgAttempts, cleaner, now, ticks,
                 emailed, leasedAt,
                 delivered>>

\* _getNextJobFromQueue: SADD job:processing.
GetNextJob_sadd(l) ==
  /\ loop[l].pc = "sadd"
  /\ processing' = processing \cup {loop[l].jid}
  /\ loop' = Goto(l, "leaseGet")
  /\ leasedAt' = [leasedAt EXCEPT ![loop[l].jid] = now]
  /\ UNCHANGED <<bullVars, authVars, fetchVars, restVars, dataVars>>
  /\ UNCHANGED <<store, queue, nextId, cfgAttempts, cleaner, now, ticks,
                 emailed, retryAt, delivered>>

\* _getNextJobFromQueue: getJobById; a missing record goes on to SREM. The
\* record read here is the processor's argument, of which only job.data (which
\* never changes) is used.
GetNextJob_get(l) ==
  /\ loop[l].pc = "leaseGet"
  /\ loop' = IF getJobById(loop[l].jid) = NoJob
             THEN Goto(l, "leaseSrem")
             ELSE Goto(l, "execGet")
  /\ UNCHANGED <<bullVars, authVars, fetchVars, restVars, dataVars>>
  /\ UNCHANGED <<store, queue, processing, nextId, cfgAttempts, cleaner, now,
                 ticks, emailed, retryAt, leasedAt,
                 delivered>>

\* _getNextJobFromQueue: SREM of the id whose record is missing.
GetNextJob_srem(l) ==
  /\ loop[l].pc = "leaseSrem"
  /\ processing' = processing \ {loop[l].jid}
  /\ loop' = Finish(l)
  /\ UNCHANGED <<bullVars, authVars, fetchVars, restVars, dataVars>>
  /\ UNCHANGED <<store, queue, nextId, cfgAttempts, cleaner, now, ticks,
                 emailed, retryAt, leasedAt,
                 delivered>>

\* _executeJobById: updateJobById(status processing, startedAt), its read.
\* A missing record makes updateJobById throw, which _executeJobById catches
\* and hands to failJobById.
ExecuteJob_updateGet(l) ==
  /\ loop[l].pc = "execGet"
  /\ loop' = IF getJobById(loop[l].jid) = NoJob
             THEN [loop EXCEPT ![l].pc = "failGet", ![l].err = "UpdateError"]
             ELSE [loop EXCEPT ![l].pc = "execSet",
                    ![l].snap = [getJobById(loop[l].jid) EXCEPT
                                   !.status = "processing", !.startedAt = now]]
  /\ UNCHANGED <<bullVars, authVars, fetchVars, restVars, dataVars>>
  /\ UNCHANGED <<store, queue, processing, nextId, cfgAttempts, cleaner, now,
                 ticks, emailed, retryAt, leasedAt,
                 delivered>>

\* _executeJobById: updateJobById, its write; the processor starts.
ExecuteJob_updateSet(l) ==
  /\ loop[l].pc = "execSet"
  /\ store' = RedisSet(loop[l].jid, loop[l].snap)
  /\ loop' = [loop EXCEPT ![l].pc = "running", ![l].snap = NoJob]
  /\ UNCHANGED <<bullVars, authVars, fetchVars, restVars, dataVars>>
  /\ UNCHANGED <<queue, processing, nextId, cfgAttempts, cleaner, now, ticks,
                 emailed, retryAt, leasedAt,
                 delivered>>

\* processPptExport: exportPptService.processExport resolves; its last await
\* is notificationService.sendEmail with the report, so the email is out.
Processor_succeed(l) ==
  /\ loop[l].pc = "running"
  /\ loop' = Goto(l, "compGet")
  /\ delivered' = [delivered EXCEPT ![loop[l].jid] = @ + 1]
  /\ UNCHANGED <<bullVars, authVars, fetchVars, restVars, dataVars>>
  /\ UNCHANGED <<store, queue, processing, nextId, cfgAttempts, cleaner, now,
                 ticks, emailed, retryAt, leasedAt>>

\* processPptExport: exportPptService.processExport rejects; the catch block
\* goes on to the failure notification.
Processor_fail(l) ==
  /\ loop[l].pc = "running"
  /\ loop' = [loop EXCEPT ![l].pc = "notify", ![l].err = "ProcessingError"]
  /\ UNCHANGED <<bullVars, authVars, fetchVars, restVars, dataVars>>
  /\ UNCHANGED <<store, queue, processing, nextId, cfgAttempts, cleaner, now,
                 ticks, emailed, retryAt, leasedAt,
                 delivered>>

\* processPptExport, catch block: sendFailureEmail is awaited (it resolves
\* whether or not the mail went out), then the original error is rethrown and
\* _executeJobById hands it to failJobById.
Processor_notify(l) ==
  /\ loop[l].pc = "notify"
  /\ emailed' = emailed \cup {loop[l].jid}
  /\ loop' = Goto(l, "failGet")
  /\ UNCHANGED <<bullVars, authVars, fetchVars, restVars, dataVars>>
  /\ UNCHANGED <<store, queue, processing, nextId, cfgAttempts, cleaner, now,
                 ticks, retryAt, leasedAt,
                 delivered>>

\* completeJobById: updateJobById(status completed), its read. A missing
\* record throws; completeJobById catches and returns without SREM.
CompleteJob_updateGet(l) ==
  /\ loop[l].pc = "compGet"
  /\ loop' = IF getJobById(loop[l].jid) = NoJob
             THEN Finish(l)
             ELSE [loop EXCEPT ![l].pc = "compSet",
                    ![l].snap = [getJobById(loop[l].jid) EXCEPT
                                   !.status = "completed"]]
  /\ UNCHANGED <<bullVars, authVars, fetchVars, restVars, dataVars>>
  /\ UNCHANGED <<store, queue, processing, nextId, cfgAttempts, cleaner, now,
                 ticks, emailed, retryAt, leasedAt,
                 delivered>>

CompleteJob_updateSet(l) ==
  /\ loop[l].pc = "compSet"
  /\ store' = RedisSet(loop[l].jid, loop[l].snap)
  /\ loop' = [loop EXCEPT ![l].pc = "compSrem", ![l].snap = NoJob]
  /\ UNCHANGED <<bullVars, authVars, fetchVars, restVars, dataVars>>
  /\ UNCHANGED <<queue, processing, nextId, cfgAttempts, cleaner, now, ticks,
                 emailed, retryAt, leasedAt,
                 delivered>>

CompleteJob_srem(l) ==
  /\ loop[l].pc = "compSrem"
  /\ processing' = processing \ {loop[l].jid}
  /\ loop' = Finish(l)
  /\ UNCHANGED <<bullVars, authVars, fetchVars, restVars, dataVars>>
  /\ UNCHANGED <<store, queue, nextId, cfgAttempts, cleaner, now, ticks,
                 emailed, retryAt, leasedAt,
                 delivered>>

\* failJobById: getJobById, attempts = job.attempts + 1, shouldRetry.
FailJob_get(l) ==
  /\ loop[l].pc = "failGet"
  /\ loop' = IF getJobById(loop[l].jid) = NoJob
             THEN Finish(l)
             ELSE [loop EXCEPT ![l].pc = "failUpdGet",
                    ![l].att = getJobById(loop[l].jid).attempts + 1,
                    ![l].retry = shouldRetry(
                        getJobById(loop[l].jid).attempts + 1,
                        getJobById(loop[l].jid))]
  /\ UNCHANGED <<bullVars, authVars, fetchVars, restVars, dataVars>>
  /\ UNCHANGED <<store, queue, processing, nextId, cfgAttempts, cleaner, now,
                 ticks, emailed, retryAt, leasedAt,
                 delivered>>

\* failJobById: updateJobById(status pending | failed, attempts, error), its
\* read. A missing record throws; failJobById catches and returns.
FailJob_updateGet(l) ==
  /\ loop[l].pc = "failUpdGet"
  /\ loop' = IF getJobById(loop[l].jid) = NoJob
             THEN Finish(l)
             ELSE [loop EXCEPT ![l].pc = "failUpdSet",
                    ![l].snap = [getJobById(loop[l].jid) EXCEPT
                       !.status = IF loop[l].retry THEN "pending" ELSE "failed",
                       !.attempts = loop[l].att,
                       !.error = loop[l].err]]
  /\ UNCHANGED <<bullVars, authVars, fetchVars, restVars, dataVars>>
  /\ UNCHANGED <<store, queue, processing, nextId, cfgAttempts, cleaner, now,
                 ticks, emailed, retryAt, leasedAt,
                 delivered>>

FailJob_updateSet(l) ==
  /\ loop[l].pc = "failUpdSet"
  /\ store' = RedisSet(loop[l].jid, loop[l].snap)
  /\ loop' = [loop EXCEPT ![l].pc = "failSrem", ![l].snap = NoJob]
  /\ UNCHANGED <<bullVars, authVars, fetchVars, restVars, dataVars>>
  /\ UNCHANGED <<queue, processing, nextId, cfgAttempts, cleaner, now, ticks,
                 emailed, retryAt, leasedAt,
                 delivered>>

FailJob_srem(l) ==
  /\ loop[l].pc = "failSrem"
  /\ processing' = processing \ {loop[l].jid}
  /\ loop' = IF loop[l].retry THEN Goto(l, "failPush") ELSE Finish(l)
  /\ UNCHANGED <<bullVars, authVars, fetchVars, restVars, dataVars>>
  /\ UNCHANGED <<store, queue, nextId, cfgAttempts, cleaner, now, ticks,
                 emailed, retryAt, leasedAt,
                 delivered>>

\* failJobById, retry branch: RPUSH job:queue, with no delay.
FailJob_rpush(l) ==
  /\ loop[l].pc = "failPush"
  /\ queue' = rpush(queue, loop[l].jid)
  /\ retryAt' = [retryAt EXCEPT ![loop[l].jid] = now]
  /\ loop' = Finish(l)
  /\ UNCHANGED <<bullVars, authVars, fetchVars, restVars, dataVars>>
  /\ UNCHANGED <<store, processing, nextId, cfgAttempts, cleaner, now, ticks,
                 emailed, leasedAt,
                 delivered>>

\* _cleanupOrphanedJobs: SMEMBERS job:processing, then const now = Date.now()
\* (an empty set returns at once, which changes nothing).
Cleanup_smembers ==
  /\ cleaner.pc = "idle"
  /\ processing # {}
  /\ cleaner' = [IdleCleaner EXCEPT !.pc = "next", !.todo = processing,
                                    !.at = now]
  /\ UNCHANGED <<bullVars, authVars, fetchVars, restVars, dataVars>>
  /\ UNCHANGED <<store, queue, processing, nextId, cfgAttempts, loop, now,
                 ticks, emailed, retryAt, leasedAt,
                 delivered>>

\* The stuck test: job.status === "processing" && job.startedAt, and
\* processingTime > maxProcessingTime.
IsStuck(job, at) ==
  /\ job.status = "processing"
  /\ job.startedAt # NoTime
  /\ at - job.startedAt > MaxProcessingTimeSec

\* _cleanupOrphanedJobs, one turn of the for loop up to its first command
\* after getJobById: the next id of the SMEMBERS reply (in any order) is read
\* and classified; when no id is left the call returns.
Cleanup_get ==
  /\ cleaner.pc = "next"
  /\ IF cleaner.todo = {}
     THEN cleaner' = IdleCleaner
     ELSE \E j \in cleaner.todo :
            cleaner' = [cleaner EXCEPT
              !.todo = cleaner.todo \ {j},
              !.jid = j,
              !.pc = IF getJobById(j) = NoJob THEN "srem"
                     ELSE IF getJobById(j).status \in {"completed", "failed"}
                       THEN "srem"
                     ELSE IF IsStuck(getJobById(j), cleaner.at)
                       THEN "stuckSrem"
                     ELSE "next"]
  /\ UNCHANGED <<bullVars, authVars, fetchVars, restVars, dataVars>>
  /\ UNCHANGED <<store, queue, processing, nextId, cfgAttempts, loop, now,
                 ticks, emailed, retryAt, leasedAt,
                 delivered>>

\* _cleanupOrphanedJobs: SREM of a missing, completed or failed job.
Cleanup_srem ==
  /\ cleaner.pc = "srem"
  /\ processing' = processing \ {cleaner.jid}
  /\ cleaner' = [cleaner EXCEPT !.pc = "next"]
  /\ UNCHANGED <<bullVars, authVars, fetchVars, restVars, dataVars>>
  /\ UNCHANGED <<store, queue, nextId, cfgAttempts, loop, now, ticks, emailed,
                 retryAt, leasedAt,
                 delivered>>

\* _cleanupOrphanedJobs, stuck job: SREM.
Cleanup_stuckSrem ==
  /\ cleaner.pc = "stuckSrem"
  /\ processing' = processing \ {cleaner.jid}
  /\ cleaner' = [cleaner EXCEPT !.pc = "stuckGet"]
  /\ UNCHANGED <<bullVars, authVars, fetchVars, restVars, dataVars>>
  /\ UNCHANGED <<store, queue, nextId, cfgAttempts, loop, now, ticks, emailed,
                 retryAt, leasedAt,
                 delivered>>

\* _cleanupOrphanedJobs, stuck job: updateJobById(status pending, error), its
\* read. A missing record throws; the loop body's catch goes to the next id.
Cleanup_stuckUpdateGet ==
  /\ cleaner.pc = "stuckGet"
  /\ cleaner' = IF getJobById(cleaner.jid) = NoJob
                THEN [cleaner EXCEPT !.pc = "next"]
                ELSE [cleaner EXCEPT !.pc = "stuckSet",
                       !.snap = [getJobById(cleaner.jid) EXCEPT
                                   !.status = "pending",
                                   !.error = "StuckRequeued"]]
  /\ UNCHANGED <<bullVars, authVars, fetchVars, restVars, dataVars>>
  /\ UNCHANGED <<store, queue, processing, nextId, cfgAttempts, loop, now,
                 ticks, emailed, retryAt, leasedAt,
                 delivered>>

Cleanup_stuckUpdateSet ==
  /\ cleaner.pc = "stuckSet"
  /\ store' = RedisSet(cleaner.jid, cleaner.snap)
  /\ cleaner' = [cleaner EXCEPT !.pc = "stuckPush", !.snap = NoJob]
  /\ UNCHANGED <<bullVars, authVars, fetchVars, restVars, dataVars>>
  /\ UNCHANGED <<queue, processing, nextId, cfgAttempts, loop, now, ticks,
                 emailed, retryAt, leasedAt,
                 delivered>>

\* _cleanupOrphanedJobs, stuck job: RPUSH job:queue.
Cleanup_stuckRpush ==
  /\ cleaner.pc = "stuckPush"
  /\ queue' = rpush(queue, cleaner.jid)
  /\ cleaner' = [cleaner EXCEPT !.pc = "next"]
  /\ UNCHANGED <<bullVars, authVars, fetchVars, restVars, dataVars>>
  /\ UNCHANGED <<store, processing, nextId, cfgAttempts, loop, now, ticks,
                 emailed, retryAt, leasedAt,
                 delivered>>

\* Time passes.
Tick ==
  /\ ticks < MaxTicks
  /\ \E d \in TickSteps : now' = now + d
  /\ ticks' = ticks + 1
  /\ UNCHANGED <<bullVars, authVars, fetchVars, restVars, dataVars>>
  /\ UNCHANGED <<store, queue, processing, nextId, cfgAttempts, loop, cleaner,
                 emailed, retryAt, leasedAt,
                 delivered>>

LoopStep(l) ==
  \/ GetNextJob_lpop(l)
  \/ GetNextJob_sadd(l)
  \/ GetNextJob_get(l)
  \/ GetNextJob_srem(l)
  \/ ExecuteJob_updateGet(l)
  \/ ExecuteJob_updateSet(l)
  \/ Processor_succeed(l)
  \/ Processor_fail(l)
  \/ Processor_notify(l)
  \/ CompleteJob_updateGet(l)
  \/ CompleteJob_updateSet(l)
  \/ CompleteJob_srem(l)
  \/ FailJob_get(l)
  \/ FailJob_updateGet(l)
  \/ FailJob_updateSet(l)
  \/ FailJob_srem(l)
  \/ FailJob_rpush(l)

CleanupStep ==
  \/ Cleanup_smembers
  \/ Cleanup_get
  \/ Cleanup_srem
  \/ Cleanup_stuckSrem
  \/ Cleanup_stuckUpdateGet
  \/ Cleanup_stuckUpdateSet
  \/ Cleanup_stuckRpush

NextJob ==
  \/ addJob
  \/ \E l \in Loops : LoopStep(l)
  \/ CleanupStep
  \/ Tick

\* The worker process is killed and started again: every processLoop
\* invocation and a running cleanup end where they are; Redis keeps its keys.
Worker_crash ==
  /\ \E l \in Loops : loop[l] # IdleLoop
  /\ loop' = [l \in Loops |-> IdleLoop]
  /\ cleaner' = IdleCleaner
  /\ UNCHANGED <<bullVars, authVars, fetchVars, restVars, dataVars>>
  /\ UNCHANGED <<store, queue, processing, nextId, cfgAttempts, now, ticks,
                 emailed, retryAt, leasedAt,
                 delivered>>

NextStuck ==
  \/ NextJob
  \/ Worker_crash

\* JobService with its worker running and one job already waiting in
\* job:queue, QUEUE_ATTEMPTS allowing a retry.
InitFifo ==
  /\ cfgAttempts = MaxQueueAttempts
  /\ now = 0
  /\ store = [j \in JobIds |-> IF j = OlderJob THEN NewJob ELSE NoJob]
  /\ queue = <<OlderJob>>
  /\ processing = {}
  /\ nextId = 1
  /\ loop = [l \in Loops |-> IdleLoop]
  /\ cleaner = IdleCleaner
  /\ ticks = 0
  /\ emailed = {}
  /\ retryAt = [j \in JobIds |-> NoTime]
  /\ leasedAt = [j \in JobIds |-> NoTime]
  /\ delivered = [j \in JobIds |-> 0]

\* addJob and the worker loops, with no restart of the worker and no record
\* that expires (so that getNextJob always finds the record it leased).
NextFifo ==
  \/ addJob
  \/ \E l \in Loops :
       \/ GetNextJob_lpop(l)
       \/ GetNextJob_sadd(l)
       \/ GetNextJob_get(l)
       \/ ExecuteJob_updateGet(l)
       \/ ExecuteJob_updateSet(l)
       \/ Processor_succeed(l)
       \/ Processor_fail(l)
       \/ Processor_notify(l)
       \/ CompleteJob_updateGet(l)
       \/ CompleteJob_updateSet(l)
       \/ CompleteJob_srem(l)
       \/ FailJob_get(l)
       \/ FailJob_updateGet(l)
       \/ FailJob_updateSet(l)
       \/ FailJob_srem(l)
       \/ FailJob_rpush(l)


----------------------------------------------------------------------------
\* The BullMQ queue and the worker of initWorker.  The queue library is not
\* part of the repository: its lease, completion, failure, backoff and retry
\* steps follow section 4.E of the specification; the processor, the queue
\* options and the controller are the repository's code.

MaxBullJobs == 1
MaxBullTicks == 2
MaxRetryRequests == 1
BackoffCapSec == 30

BullIds == 1..MaxBullJobs
NoBullJob == [state |-> "none"]
ProcErrors == {"NoViewData", "SendReportFailed"}
NotifyError == "NotifyFailed"
IdleProc == [pc |-> "idle", seen |-> 0, err |-> "none"]
IdleReq == [pc |-> "idle", jid |-> 0, state |-> "none", code |-> 0]

\* Two POST /jobs/:jobId/retry requests the server handles at the same time.
RetryClients == {1, 2}

\* No GET /jobs/:jobId has been answered.
NoResponse == [code |-> 0, jid |-> 0, state |-> "none", status |-> "none"]

\* The states the queue library reports for a job that is in the queue.
QueueStates ==
  {"waiting", "active", "completed", "failed", "delayed", "paused"}

LegacyStatuses == {"pending", "processing", "completed", "failed"}

\* stateMap[bullmqState] || bullmqState with no entry in the table.
mapPassThrough(bullmqState) == bullmqState

\* Controller mapBullMQStateToLegacyStatus.
mapBullMQStateToLegacyStatus(bullmqState) ==
  CASE bullmqState = "waiting" -> "pending"
    [] bullmqState = "active" -> "processing"
    [] bullmqState = "completed" -> "completed"
    [] bullmqState = "failed" -> "failed"
    [] bullmqState = "delayed" -> "pending"
    [] bullmqState = "paused" -> "pending"
    [] OTHER -> bullmqState

\* Controller retryJob: `state !== "failed"` answers 400.
RetryableWhenFinished(state) == state \in {"failed", "completed"}

Retryable(state) == state = "failed"

\* job.retry() of the queue library: a job in the failed set goes back to
\* waiting with its attemptsMade; for any other job the call throws.
JobRetryThrows(job) == job.state # "failed"

JobRetried(job) == [job EXCEPT !.state = "waiting", !.failedReason = "none"]

\* defaultJobOptions.backoff {type: "exponential", delay: 1000}, capped.
BullBackoffSec(attemptsMade) ==
  IF BackoffSec(attemptsMade) > BackoffCapSec THEN BackoffCapSec
  ELSE BackoffSec(attemptsMade)

\* Processor, catch block: job.attemptsMade + 1 >= job.opts.attempts (the
\* controller has made sure that job.data.email and job.data.useCase are set).
IsFinalAttempt(job) == job.seen + 1 >= job.attempts

\* What the processor rethrows after the notification step.  sendFailureEmail
\* swallows the error of sendSimpleEmail, the processor's inner try/catch
\* swallows whatever sendFailureEmail might still raise, then "throw error".
ThrownByProcessorLeaky(error, sendOutcome) ==
  IF sendOutcome = "threw" THEN NotifyError ELSE error

ThrownByProcessor(error, sendOutcome) == error

InitBull ==
  /\ bjobs = [j \in BullIds |-> NoBullJob]
  /\ bproc = [j \in BullIds |-> IdleProc]
  /\ breq = [c \in {1} |-> IdleReq]
  /\ bclock = [now |-> 0, ticks |-> 0]
  /\ bhist = [emailed |-> {}, notifyThrew |-> {}, retries |-> 0, nextId |-> 1,
              cause |-> [j \in BullIds |-> "none"], got |-> NoResponse]

\* Controller addJob: exportQueue.add with the default job options
\* (attempts = QUEUE_ATTEMPTS).
Bull_add ==
  /\ bhist.nextId <= MaxBullJobs
  /\ \E a \in 1..MaxQueueAttempts :
       bjobs' = [bjobs EXCEPT ![bhist.nextId] =
                  [state |-> "waiting", attemptsMade |-> 0, attempts |-> a,
                   failedReason |-> "none", delayUntil |-> 0]]
  /\ bhist' = [bhist EXCEPT !.nextId = bhist.nextId + 1]
  /\ UNCHANGED <<jobVars, authVars, fetchVars, restVars, dataVars>>
  /\ UNCHANGED <<bproc, breq, bclock>>

\* Lease: the id moves from waiting to active and the processor is invoked
\* with the job as stored.
Bull_lease(j) ==
  /\ bjobs[j].state = "waiting"
  /\ bjobs' = [bjobs EXCEPT ![j].state = "active"]
  /\ bproc' = [bproc EXCEPT ![j] =
                 [pc |-> "export", seen |-> bjobs[j].attemptsMade,
                  err |-> "none"]]
  /\ UNCHANGED <<jobVars, authVars, fetchVars, restVars, dataVars>>
  /\ UNCHANGED <<breq, bclock, bhist>>

\* Processor: exportPptService.processExport(job.data) resolves.
Worker_exportResolves(j) ==
  /\ bproc[j].pc = "export"
  /\ bproc' = [bproc EXCEPT ![j].pc = "return"]
  /\ UNCHANGED <<jobVars, authVars, fetchVars, restVars, dataVars>>
  /\ UNCHANGED <<bjobs, breq, bclock, bhist>>

\* Processor: processExport rejects with error e; the catch block sends the
\* failure e-mail on the final attempt only.
Worker_exportRejects(j) ==
  /\ bproc[j].pc = "export"
  /\ \E e \in ProcErrors :
       /\ bproc' = [bproc EXCEPT
             ![j].err = e,
             ![j].pc = IF IsFinalAttempt([seen |-> bproc[j].seen,
                                          attempts |-> bjobs[j].attempts])
                       THEN "notify" ELSE "throw"]
       /\ bhist' = [bhist EXCEPT !.cause[j] = e]
  /\ UNCHANGED <<jobVars, authVars, fetchVars, restVars, dataVars>>
  /\ UNCHANGED <<bjobs, breq, bclock>>

\* Processor: await sendFailureEmail(...), whose sendSimpleEmail goes through
\* or throws; then the processor throws.
Worker_notify(j) ==
  /\ bproc[j].pc = "notify"
  /\ \E sendOutcome \in {"sent", "threw"} :
       /\ bproc' = [bproc EXCEPT
             ![j].pc = "throw",
             ![j].err = ThrownByProcessor(bproc[j].err, sendOutcome)]
       /\ bhist' = [bhist EXCEPT
             !.emailed = bhist.emailed \cup {j},
             !.notifyThrew = IF sendOutcome = "threw"
                             THEN bhist.notifyThrew \cup {j}
                             ELSE bhist.notifyThrew \ {j}]
  /\ UNCHANGED <<jobVars, authVars, fetchVars, restVars, dataVars>>
  /\ UNCHANGED <<bjobs, breq, bclock>>

\* Execute, success: state completed, removed from active.
Bull_moveToCompleted(j) ==
  /\ bproc[j].pc = "return"
  /\ bjobs' = [bjobs EXCEPT ![j].state = "completed"]
  /\ bproc' = [bproc EXCEPT ![j] = IdleProc]
  /\ UNCHANGED <<jobVars, authVars, fetchVars, restVars, dataVars>>
  /\ UNCHANGED <<breq, bclock, bhist>>

\* Execute, failure: attemptsMade is incremented; below maxAttempts the id
\* goes to delayed with score now + backoff(attemptsMade), otherwise the job
\* is failed with the thrown error as failedReason.
Bull_moveToFailed(j) ==
  /\ bproc[j].pc = "throw"
  /\ bjobs' = [bjobs EXCEPT ![j] =
       IF bjobs[j].attemptsMade + 1 < bjobs[j].attempts
       THEN [bjobs[j] EXCEPT
               !.state = "delayed",
               !.attemptsMade = bjobs[j].attemptsMade + 1,
               !.delayUntil = bclock.now
                              + BullBackoffSec(bjobs[j].attemptsMade + 1)]
       ELSE [bjobs[j] EXCEPT
               !.state = "failed",
               !.attemptsMade = bjobs[j].attemptsMade + 1,
               !.failedReason = bproc[j].err]]
  /\ bproc' = [bproc EXCEPT ![j] = IdleProc]
  /\ UNCHANGED <<jobVars, authVars, fetchVars, restVars, dataVars>>
  /\ UNCHANGED <<breq, bclock, bhist>>

\* Scheduler tick: a due delayed id is promoted back to waiting.
Bull_promote(j) ==
  /\ bjobs[j].state = "delayed"
  /\ bclock.now >= bjobs[j].delayUntil
  /\ bjobs' = [bjobs EXCEPT ![j].state = "waiting"]
  /\ UNCHANGED <<jobVars, authVars, fetchVars, restVars, dataVars>>
  /\ UNCHANGED <<bproc, breq, bclock, bhist>>

\* Controller retryJob: exportQueue.getJob (404 when it finds nothing) and
\* job.getState().
RetryJob_getState(c, j) ==
  /\ breq[c].pc = "idle"
  /\ bhist.retries < MaxRetryRequests * Cardinality(DOMAIN breq)
  /\ breq' = [breq EXCEPT ![c] =
               IF bjobs[j] = NoBullJob
                 THEN [pc |-> "idle", jid |-> j, state |-> "none",
                       code |-> 404]
                 ELSE [pc |-> "checked", jid |-> j, state |-> bjobs[j].state,
                       code |-> 0]]
  /\ bhist' = [bhist EXCEPT !.retries = bhist.retries + 1]
  /\ UNCHANGED <<jobVars, authVars, fetchVars, restVars, dataVars>>
  /\ UNCHANGED <<bjobs, bproc, bclock>>

\* Controller retryJob: 400 unless the state read was "failed"; otherwise
\* job.retry(), answered 200, or 500 from the catch when it throws.
RetryJob_retry(c) ==
  /\ breq[c].pc = "checked"
  /\ LET j == breq[c].jid
         code == IF ~Retryable(breq[c].state) THEN 400
                 ELSE IF JobRetryThrows(bjobs[j]) THEN 500
                 ELSE 200
     IN /\ bjobs' = IF code = 200
                      THEN [bjobs EXCEPT ![j] = JobRetried(bjobs[j])]
                      ELSE bjobs
        /\ breq' = [breq EXCEPT ![c] = [pc |-> "idle", jid |-> j,
                                        state |-> "none", code |-> code]]
  /\ UNCHANGED <<jobVars, authVars, fetchVars, restVars, dataVars>>
  /\ UNCHANGED <<bproc, bclock, bhist>>

\* Controller getJobById over the provider's getJobById: 404 when getJob
\* finds nothing, else 200 with the state read mapped to the legacy status.
GetJobById(j) ==
  /\ bhist' = [bhist EXCEPT
                 !.got = IF bjobs[j] = NoBullJob
                           THEN [code |-> 404, jid |-> j, state |-> "none",
                                 status |-> "none"]
                           ELSE [code |-> 200, jid |-> j,
                                 state |-> bjobs[j].state,
                                 status |->
                                   mapBullMQStateToLegacyStatus(
                                     bjobs[j].state)]]
  /\ UNCHANGED <<jobVars, authVars, fetchVars, restVars, dataVars>>
  /\ UNCHANGED <<bjobs, bproc, breq, bclock>>

Bull_tick ==
  /\ bclock.ticks < MaxBullTicks
  /\ bclock' = [now |-> bclock.now + 1, ticks |-> bclock.ticks + 1]
  /\ UNCHANGED <<jobVars, authVars, fetchVars, restVars, dataVars>>
  /\ UNCHANGED <<bjobs, bproc, breq, bhist>>

NextBull ==
  \/ Bull_add
  \/ \E j \in BullIds :
       \/ Bull_lease(j)
       \/ Worker_exportResolves(j)
       \/ Worker_exportRejects(j)
       \/ Worker_notify(j)
       \/ Bull_moveToCompleted(j)
       \/ Bull_moveToFailed(j)
       \/ Bull_promote(j)
       \/ \E c \in DOMAIN breq : RetryJob_getState(c, j)
  \/ \E c \in DOMAIN breq : RetryJob_retry(c)
  \/ Bull_tick

\* The jobs a queue can hold when a request arrives: waiting or active
\* before the last attempt, delayed after a failed attempt that was not the
\* last, completed, or failed after the last attempt with the error thrown.
QueuedJobs ==
  {jb \in [state : {"waiting", "active", "completed", "failed", "delayed"},
           attemptsMade : 0..MaxQueueAttempts,
           attempts : {MaxQueueAttempts},
           failedReason : ProcErrors \cup {"none"},
           delayUntil : {0} \cup {BullBackoffSec(m) : m \in 1..MaxQueueAttempts}] :
     /\ (jb.state = "failed") = (jb.failedReason # "none")
     /\ (jb.state = "failed") = (jb.attemptsMade = jb.attempts)
     /\ jb.state = "delayed" => jb.attemptsMade >= 1
     /\ jb.delayUntil = IF jb.state = "delayed"
                          THEN BullBackoffSec(jb.attemptsMade) ELSE 0}

\* The API process over a queue that holds any such jobs, or none under an
\* id: two retry requests and the status requests.
InitJobApi ==
  /\ bjobs \in [BullIds -> QueuedJobs \cup {NoBullJob}]
  /\ bproc = [j \in BullIds |->
                IF bjobs[j].state = "active"
                  THEN [pc |-> "export", seen |-> bjobs[j].attemptsMade,
                        err |-> "none"]
                  ELSE IdleProc]
  /\ breq = [c \in RetryClients |-> IdleReq]
  /\ bclock = [now |-> 0, ticks |-> 0]
  /\ bhist = [emailed |-> {}, notifyThrew |-> {}, retries |-> 0,
              nextId |-> MaxBullJobs + 1,
              cause |-> [j \in BullIds |->
                           IF bjobs[j].state = "failed"
                             THEN bjobs[j].failedReason ELSE "none"],
              got |-> NoResponse]

NextJobApi ==
  \/ \E j \in BullIds : GetJobById(j)
  \/ \E j \in BullIds : \E c \in DOMAIN breq : RetryJob_getState(c, j)
  \/ \E c \in DOMAIN breq : RetryJob_retry(c)

----------------------------------------------------------------------------
\* TableauService.getValidToken / authenticate.  A call of getValidToken runs
\* without interruption up to its first await; the reply to POST /auth/signin,
\* the .finally callback and the resumption of each awaiting caller are later
\* steps of the event loop.

MaxSites == 1
MaxCallers == 2
MaxAuthCalls == 2
MaxAuthTicks == 1

TOKEN_BUFFER_TIME_SEC == 600
TOKEN_LIFETIME_SEC == 7200

Sites == 1..MaxSites
Callers == 1..MaxCallers
CallIds == 1..MaxAuthCalls
NoPromise == 0
NoCall == [site |-> 0, st |-> "unused"]
IdleCaller == [pc |-> "idle", site |-> 0, awaits |-> NoPromise, got |-> 0]
AuthTickSteps == {1, TOKEN_LIFETIME_SEC - TOKEN_BUFFER_TIME_SEC}

\* cache.token && now < cache.expiresAt - TOKEN_BUFFER_TIME_MS
CacheValidUntilExpiry(cache, t) == cache.token # 0 /\ t < cache.expiresAt

CacheValid(cache, t) ==
  cache.token # 0 /\ t < cache.expiresAt - TOKEN_BUFFER_TIME_SEC

\* const existingPromise = this.authPromises.get(siteName)
existingPromiseIgnored(site) == NoPromise

existingPromise(site) == authPromises[site]

\* The authenticate calls of a site whose sign-in request is out.
InFlight(site) ==
  {p \in CallIds : authCalls[p].st = "inflight" /\ authCalls[p].site = site}

FreeCalls == {p \in CallIds : authCalls[p].st = "unused"}

InitAuth ==
  /\ authCache = [s \in Sites |-> [token |-> 0, expiresAt |-> 0]]
  /\ authPromises = [s \in Sites |-> NoPromise]
  /\ authCalls = [p \in CallIds |-> NoCall]
  /\ caller = [c \in Callers |-> IdleCaller]
  /\ authClock = [now |-> 0, ticks |-> 0]

\* getValidToken(siteName), up to its first await: a valid cached entry is
\* returned; else a pending authPromise of the site is awaited; else
\* authenticate(siteName) is called (it runs up to its await of client.post,
\* so the request is out), its promise with the .finally callback is stored
\* in authPromises and awaited.
GetValidToken(c, site) ==
  /\ caller[c].pc = "idle"
  /\ IF CacheValid(authCache[site], authClock.now)
     THEN /\ caller' = [caller EXCEPT ![c] =
                 [pc |-> "token", site |-> site, awaits |-> NoPromise,
                  got |-> authCache[site].token]]
          /\ UNCHANGED <<authPromises, authCalls>>
     ELSE IF existingPromise(site) # NoPromise
     THEN /\ caller' = [caller EXCEPT ![c] =
                 [pc |-> "waiting", site |-> site,
                  awaits |-> existingPromise(site), got |-> 0]]
          /\ UNCHANGED <<authPromises, authCalls>>
     ELSE /\ FreeCalls # {}
          /\ LET p == CHOOSE q \in FreeCalls : \A r \in FreeCalls : q <= r IN
               /\ authCalls' = [authCalls EXCEPT ![p] =
                     [site |-> site, st |-> "inflight"]]
               /\ authPromises' = [authPromises EXCEPT ![site] = p]
               /\ caller' = [caller EXCEPT ![c] =
                     [pc |-> "waiting", site |-> site, awaits |-> p,
                      got |-> 0]]
  /\ UNCHANGED <<jobVars, bullVars, fetchVars, restVars, dataVars>>
  /\ UNCHANGED <<authCache, authClock>>

\* authenticate, after client.post resolved: the entry {token, siteId,
\* expiresAt: Date.now() + TOKEN_LIFETIME_MS} is cached and returned.
Authenticate_succeeds(p) ==
  /\ authCalls[p].st = "inflight"
  /\ authCache' = [authCache EXCEPT ![authCalls[p].site] =
       [token |-> p, expiresAt |-> authClock.now + TOKEN_LIFETIME_SEC]]
  /\ authCalls' = [authCalls EXCEPT ![p].st = "fulfilled"]
  /\ UNCHANGED <<jobVars, bullVars, fetchVars, restVars, dataVars>>
  /\ UNCHANGED <<authPromises, caller, authClock>>

\* authenticate, after client.post rejected: the catch block throws.
Authenticate_fails(p) ==
  /\ authCalls[p].st = "inflight"
  /\ authCalls' = [authCalls EXCEPT ![p].st = "rejected"]
  /\ UNCHANGED <<jobVars, bullVars, fetchVars, restVars, dataVars>>
  /\ UNCHANGED <<authCache, authPromises, caller, authClock>>

\* A cleanup attached with .then(callback) in place of .finally(callback): it
\* runs for a fulfilled authenticate only.
GetValidToken_then(p) ==
  /\ authCalls[p].st \in {"fulfilled", "rejected"}
  /\ authPromises' = [authPromises EXCEPT ![authCalls[p].site] =
       IF authCalls[p].st = "fulfilled" THEN NoPromise ELSE @]
  /\ authCalls' = [authCalls EXCEPT ![p].st =
       IF authCalls[p].st = "fulfilled" THEN "doneOk" ELSE "doneErr"]
  /\ UNCHANGED <<jobVars, bullVars, fetchVars, restVars, dataVars>>
  /\ UNCHANGED <<authCache, caller, authClock>>

\* The .finally callback: this.authPromises.delete(siteName); the promise the
\* callers await settles after it.
GetValidToken_finally(p) ==
  /\ authCalls[p].st \in {"fulfilled", "rejected"}
  /\ authPromises' = [authPromises EXCEPT ![authCalls[p].site] = NoPromise]
  /\ authCalls' = [authCalls EXCEPT ![p].st =
       IF authCalls[p].st = "fulfilled" THEN "doneOk" ELSE "doneErr"]
  /\ UNCHANGED <<jobVars, bullVars, fetchVars, restVars, dataVars>>
  /\ UNCHANGED <<authCache, caller, authClock>>

\* "return await authPromise" resumes with the entry, or rethrows.
GetValidToken_resume(c) ==
  /\ caller[c].pc = "waiting"
  /\ authCalls[caller[c].awaits].st \in {"doneOk", "doneErr"}
  /\ caller' = [caller EXCEPT
       ![c].pc = IF authCalls[caller[c].awaits].st = "doneOk"
                 THEN "token" ELSE "error",
       ![c].got = IF authCalls[caller[c].awaits].st = "doneOk"
                  THEN caller[c].awaits ELSE 0]
  /\ UNCHANGED <<jobVars, bullVars, fetchVars, restVars, dataVars>>
  /\ UNCHANGED <<authCache, authPromises, authCalls, authClock>>

\* The caller is done with the outcome and may call again.
Caller_done(c) ==
  /\ caller[c].pc \in {"token", "error"}
  /\ caller' = [caller EXCEPT ![c] = IdleCaller]
  /\ UNCHANGED <<jobVars, bullVars, fetchVars, restVars, dataVars>>
  /\ UNCHANGED <<authCache, authPromises, authCalls, authClock>>

Auth_tick ==
  /\ authClock.ticks < MaxAuthTicks
  /\ \E d \in AuthTickSteps :
       authClock' = [now |-> authClock.now + d, ticks |-> authClock.ticks + 1]
  /\ UNCHANGED <<jobVars, bullVars, fetchVars, restVars, dataVars>>
  /\ UNCHANGED <<authCache, authPromises, authCalls, caller>>

NextAuth ==
  \/ \E c \in Callers, site \in Sites : GetValidToken(c, site)
  \/ \E p \in CallIds :
       \/ Authenticate_succeeds(p)
       \/ Authenticate_fails(p)
       \/ GetValidToken_finally(p)
  \/ \E c \in Callers :
       \/ GetValidToken_resume(c)
       \/ Caller_done(c)
  \/ Auth_tick

\* A second site name, beside those of Sites: authCache and authPromises are
\* Maps keyed by siteName, with one entry per site that was asked for.  With
\* two sites the clock moves once, by a second or past the refresh point.
OtherSite == MaxSites + 1
AllSites == 1..OtherSite

InitAuthSites ==
  /\ authCache = [s \in AllSites |-> [token |-> 0, expiresAt |-> 0]]
  /\ authPromises = [s \in AllSites |-> NoPromise]
  /\ authCalls = [p \in CallIds |-> NoCall]
  /\ caller = [c \in Callers |-> IdleCaller]
  /\ authClock = [now |-> 0, ticks |-> 0]

NextAuthSites ==
  \/ \E c \in Callers, site \in AllSites : GetValidToken(c, site)
  \/ \E p \in CallIds :
       \/ Authenticate_succeeds(p)
       \/ Authenticate_fails(p)
       \/ GetValidToken_finally(p)
  \/ \E c \in Callers :
       \/ GetValidToken_resume(c)
       \/ Caller_done(c)
  \/ (authClock.ticks = 0 /\ Auth_tick)

----------------------------------------------------------------------------
\* TableauService.fetchViewsDataInParallel(viewConfigs, workbookName,
\* siteName, concurrency).  The view configs are those of
\* buildViewConfigsForFetching, one per view key of the catalog, so view config
\* k carries the view key k; the reply to the export request of view k is the
\* payload ViewData(k).

MaxViews == 3
MaxConcurrency == 2
DEFAULT_RETRY_COUNT == 3

ViewIdx == 1..MaxViews
Absent == 0
ViewData(k) == 100 + k
NoTask == [st |-> "none", tries |-> 0]

Min(a, b) == IF a < b THEN a ELSE b

\* const batch = viewConfigs.slice(i, i + concurrency), as the positions
\* (counted from 1) of its elements.
BatchOfOneMore(i, concurrency, n) == (i + 1)..Min(i + concurrency + 1, n)

BatchOf(i, concurrency, n) == (i + 1)..Min(i + concurrency, n)

Settled(k) == ftask[k].st \in {"ok", "failed"}

\* batchResults.forEach: results.set(result.viewKey, result.data) for each
\* successful result, a failed one is logged and skipped.
CollectAllOrNothing(results, batch) ==
  IF \A k \in batch : ftask[k].st = "ok"
  THEN [k \in ViewIdx |-> IF k \in batch THEN ViewData(k) ELSE results[k]]
  ELSE results

CollectBatch(results, batch) ==
  [k \in ViewIdx |->
     IF k \in batch /\ ftask[k].st = "ok" THEN ViewData(k) ELSE results[k]]

InitFetch ==
  /\ \E n \in 1..MaxViews, c \in 1..MaxConcurrency :
       \E known \in SUBSET (1..n) :
         fetch = [pc |-> "start", n |-> n, concurrency |-> c,
                  known |-> known, i |-> 0]
  /\ ftask = [k \in ViewIdx |-> NoTask]
  /\ fresults = [k \in ViewIdx |-> Absent]

\* A caller that passes any integer from 0 up as concurrency.
InitFetchAny ==
  /\ \E n \in 1..MaxViews, c \in 0..MaxConcurrency :
       \E known \in SUBSET (1..n) :
         fetch = [pc |-> "start", n |-> n, concurrency |-> c,
                  known |-> known, i |-> 0]
  /\ ftask = [k \in ViewIdx |-> NoTask]
  /\ fresults = [k \in ViewIdx |-> Absent]

\* getWorkbookByName and getWorkbookViews resolve; viewNameToIdMap is built
\* (fetch.known are the view configs whose viewName it contains).
Fetch_lookupOk ==
  /\ fetch.pc = "start"
  /\ fetch' = [fetch EXCEPT !.pc = "loop"]
  /\ UNCHANGED <<jobVars, bullVars, authVars, restVars, dataVars>>
  /\ UNCHANGED <<ftask, fresults>>

\* getWorkbookByName or getWorkbookViews rejects: the call throws.
Fetch_lookupFails ==
  /\ fetch.pc = "start"
  /\ fetch' = [fetch EXCEPT !.pc = "threw"]
  /\ UNCHANGED <<jobVars, bullVars, authVars, restVars, dataVars>>
  /\ UNCHANGED <<ftask, fresults>>

\* One turn of the for loop up to "await Promise.all(batchPromises)": every
\* task of the batch runs up to its first await.  A view that is not in
\* viewNameToIdMap resolves {success: false} at once; the others call
\* exportData.
Fetch_startBatch ==
  /\ fetch.pc = "loop"
  /\ fetch.i < fetch.n
  /\ ftask' = [k \in ViewIdx |->
       IF k \in BatchOf(fetch.i, fetch.concurrency, fetch.n)
       THEN [st |-> IF k \in fetch.known THEN "started" ELSE "failed",
             tries |-> 0]
       ELSE ftask[k]]
  /\ fetch' = [fetch EXCEPT !.pc = "awaiting"]
  /\ UNCHANGED <<jobVars, bullVars, authVars, restVars, dataVars>>
  /\ UNCHANGED <<fresults>>

\* exportData: getValidToken resolved, client.get(.../views/{viewId}/data)
\* is sent.
Task_request(k) ==
  /\ ftask[k].st = "started"
  /\ ftask' = [ftask EXCEPT ![k].st = "inflight"]
  /\ UNCHANGED <<jobVars, bullVars, authVars, restVars, dataVars>>
  /\ UNCHANGED <<fetch, fresults>>

\* exportData: getValidToken rejected; the task's catch returns
\* {success: false}.
Task_tokenFails(k) ==
  /\ ftask[k].st = "started"
  /\ ftask' = [ftask EXCEPT ![k].st = "failed"]
  /\ UNCHANGED <<jobVars, bullVars, authVars, restVars, dataVars>>
  /\ UNCHANGED <<fetch, fresults>>

\* The export request is answered with the data.
Task_succeeds(k) ==
  /\ ftask[k].st = "inflight"
  /\ ftask' = [ftask EXCEPT ![k].st = "ok"]
  /\ UNCHANGED <<jobVars, bullVars, authVars, restVars, dataVars>>
  /\ UNCHANGED <<fetch, fresults>>

\* The export request fails for good (an error axios-retry does not retry, or
\* the retries are used up); the task's catch returns {success: false}.
Task_fails(k) ==
  /\ ftask[k].st = "inflight"
  /\ ftask' = [ftask EXCEPT ![k].st = "failed"]
  /\ UNCHANGED <<jobVars, bullVars, authVars, restVars, dataVars>>
  /\ UNCHANGED <<fetch, fresults>>

\* The export request fails with a network error or a 5xx and axios-retry
\* has retries left: it waits, then sends the request again.
Task_retryWait(k) ==
  /\ ftask[k].st = "inflight"
  /\ ftask[k].tries < DEFAULT_RETRY_COUNT
  /\ ftask' = [ftask EXCEPT ![k].st = "retrying",
                            ![k].tries = ftask[k].tries + 1]
  /\ UNCHANGED <<jobVars, bullVars, authVars, restVars, dataVars>>
  /\ UNCHANGED <<fetch, fresults>>

Task_retrySend(k) ==
  /\ ftask[k].st = "retrying"
  /\ ftask' = [ftask EXCEPT ![k].st = "inflight"]
  /\ UNCHANGED <<jobVars, bullVars, authVars, restVars, dataVars>>
  /\ UNCHANGED <<fetch, fresults>>

\* Promise.all resolved (every task of the batch has returned): the results
\* are collected and i += concurrency.
Fetch_collect ==
  /\ fetch.pc = "awaiting"
  /\ \A k \in BatchOf(fetch.i, fetch.concurrency, fetch.n) : Settled(k)
  /\ fresults' = CollectBatch(fresults,
                     BatchOf(fetch.i, fetch.concurrency, fetch.n))
  /\ fetch' = [fetch EXCEPT !.pc = "loop", !.i = fetch.i + fetch.concurrency]
  /\ UNCHANGED <<jobVars, bullVars, authVars, restVars, dataVars>>
  /\ UNCHANGED <<ftask>>

\* The loop is over: return results.
Fetch_return ==
  /\ fetch.pc = "loop"
  /\ fetch.i >= fetch.n
  /\ fetch' = [fetch EXCEPT !.pc = "returned"]
  /\ UNCHANGED <<jobVars, bullVars, authVars, restVars, dataVars>>
  /\ UNCHANGED <<ftask, fresults>>

NextFetch ==
  \/ Fetch_lookupOk
  \/ Fetch_lookupFails
  \/ Fetch_startBatch
  \/ \E k \in ViewIdx :
       \/ Task_request(k)
       \/ Task_tokenFails(k)
       \/ Task_succeeds(k)
       \/ Task_fails(k)
       \/ Task_retryWait(k)
       \/ Task_retrySend(k)
  \/ Fetch_collect
  \/ Fetch_return

----------------------------------------------------------------------------
\* ExportPptService.processExport(jobData): use-case lookup, view configs,
\* fetchViewsDataInParallel (the steps of the section above), transform,
\* getPptConfig, createSlidesAsBuffer, sendEmail.  The repository has two
\* getPptConfig engines: the generic one driven by slide-view-mapping.json and
\* the use-case one (PoliticalSnapshotService) behind PptConfigService.

DEFAULT_CONCURRENCY == 5

Engines == {"generic", "useCase"}
ExportErrors == {"UseCaseNotFound", "FetchFailed", "NoViewData",
                 "ViewDataRequired", "BuildFailed", "EmailFailed"}

IdleExport == [pc |-> "none", engine |-> "generic", transformed |-> {},
               err |-> "none", assembled |-> FALSE, emailed |-> FALSE,
               viewsProcessed |-> 0]

\* The keys of viewDataMap, and viewDataMap.size.
FetchedViews == {k \in ViewIdx : fresults[k] # Absent}

viewDataMapSizeAsConfigured(results) == fetch.n

viewDataMapSize(results) == Cardinality({k \in ViewIdx : results[k] # Absent})

\* if (viewDataMap.size === 0) throw new Error("No view data was ...")
noViewDataNever(results) == FALSE

noViewData(results) == viewDataMapSize(results) = 0

\* getPptConfig({useCase, filters, viewData}): the generic engine builds every
\* slide of the mapping and skips the elements whose data is missing; the
\* use-case engine throws "viewData is required for PPT generation" when
\* viewData has no key.
getPptConfig(engine, viewData) ==
  IF engine = "useCase" /\ viewData = {} THEN "ViewDataRequired" ELSE "ok"

\* A catch block that wraps what it caught in an error of its own.
catchBlockWraps(error) == "ExportFailed"

\* catch (error) { logger.error("Export job failed", ...); throw error; }
catchBlock(error) == error

InitExport ==
  \E e \in Engines : exp = [IdleExport EXCEPT !.pc = "start", !.engine = e]

\* processExport up to "await fetchViewsDataInParallel(viewConfigs, workbookName,
\* siteName, DEFAULT_CONCURRENCY)": the use case is known and
\* buildViewConfigsForFetching gives one view config per view of the catalog.
Export_callFetch ==
  /\ exp.pc = "start"
  /\ fetch.pc = "none"
  /\ \E n \in 1..MaxViews :
       \E known \in SUBSET (1..n) :
         fetch' = [pc |-> "start", n |-> n,
                   concurrency |-> DEFAULT_CONCURRENCY, known |-> known,
                   i |-> 0]
  /\ exp' = [exp EXCEPT !.pc = "fetching"]
  /\ UNCHANGED <<jobVars, bullVars, authVars, dataVars>>
  /\ UNCHANGED <<ftask, fresults, wk, cred, shut, drain>>

\* The use case is not in usecase-mapping.json (or not in tableau-views.json):
\* the lookup throws, the catch block logs and rethrows.
Export_unknownUseCase ==
  /\ exp.pc = "start"
  /\ exp' = [exp EXCEPT !.pc = "threw", !.err = catchBlock("UseCaseNotFound")]
  /\ UNCHANGED <<jobVars, bullVars, authVars, fetchVars, dataVars>>
  /\ UNCHANGED <<wk, cred, shut, drain>>

\* fetchViewsDataInParallel threw (workbook or view lookup failed).
Export_fetchThrew ==
  /\ exp.pc = "fetching"
  /\ fetch.pc = "threw"
  /\ exp' = [exp EXCEPT !.pc = "threw", !.err = catchBlock("FetchFailed")]
  /\ UNCHANGED <<jobVars, bullVars, authVars, fetchVars, dataVars>>
  /\ UNCHANGED <<wk, cred, shut, drain>>

\* fetchViewsDataInParallel returned viewDataMap.  An empty map throws;
\* otherwise transformViewDataMap keeps the views whose transform returned a
\* value (a transform that throws or returns null is skipped), and
\* getPptConfig is called with the transformed data.
Export_fetchReturned ==
  /\ exp.pc = "fetching"
  /\ fetch.pc = "returned"
  /\ IF noViewData(fresults)
     THEN exp' = [exp EXCEPT !.pc = "threw", !.err = catchBlock("NoViewData")]
     ELSE \E transformed \in SUBSET FetchedViews :
            exp' = [exp EXCEPT !.pc = "config", !.transformed = transformed]
  /\ UNCHANGED <<jobVars, bullVars, authVars, fetchVars, dataVars>>
  /\ UNCHANGED <<wk, cred, shut, drain>>

\* getPptConfig settles: with the manifest, createSlidesAsBuffer is called.
Export_configSettles ==
  /\ exp.pc = "config"
  /\ exp' = IF getPptConfig(exp.engine, exp.transformed) = "ok"
            THEN [exp EXCEPT !.pc = "build", !.assembled = TRUE]
            ELSE [exp EXCEPT !.pc = "threw",
                    !.err = catchBlock(getPptConfig(exp.engine,
                                                    exp.transformed))]
  /\ UNCHANGED <<jobVars, bullVars, authVars, fetchVars, dataVars>>
  /\ UNCHANGED <<wk, cred, shut, drain>>

\* createSlidesAsBuffer resolves with the bytes: sendEmail is called.
Export_buildResolves ==
  /\ exp.pc = "build"
  /\ exp' = [exp EXCEPT !.pc = "send"]
  /\ UNCHANGED <<jobVars, bullVars, authVars, fetchVars, dataVars>>
  /\ UNCHANGED <<wk, cred, shut, drain>>

Export_buildRejects ==
  /\ exp.pc = "build"
  /\ exp' = [exp EXCEPT !.pc = "threw", !.err = catchBlock("BuildFailed")]
  /\ UNCHANGED <<jobVars, bullVars, authVars, fetchVars, dataVars>>
  /\ UNCHANGED <<wk, cred, shut, drain>>

\* sendEmail resolves: return {success: true, ..., viewsProcessed:
\* viewDataMap.size}.
Export_sendResolves ==
  /\ exp.pc = "send"
  /\ exp' = [exp EXCEPT !.pc = "returned", !.emailed = TRUE,
                        !.viewsProcessed = viewDataMapSize(fresults)]
  /\ UNCHANGED <<jobVars, bullVars, authVars, fetchVars, dataVars>>
  /\ UNCHANGED <<wk, cred, shut, drain>>

Export_sendRejects ==
  /\ exp.pc = "send"
  /\ exp' = [exp EXCEPT !.pc = "threw", !.err = catchBlock("EmailFailed")]
  /\ UNCHANGED <<jobVars, bullVars, authVars, fetchVars, dataVars>>
  /\ UNCHANGED <<wk, cred, shut, drain>>

NextExport ==
  \/ Export_callFetch
  \/ Export_unknownUseCase
  \/ NextFetch
  \/ Export_fetchThrew
  \/ Export_fetchReturned
  \/ Export_configSettles
  \/ Export_buildResolves
  \/ Export_buildRejects
  \/ Export_sendResolves
  \/ Export_sendRejects

----------------------------------------------------------------------------
\* JobService.startWorker / stopWorker and the processLoop invocations they
\* leave behind.  The queue is fed from outside: a polling loop may or may not
\* find a job.

MaxStartCalls == 2
MaxWorkerConcurrency == 2

WorkerLoopIds == 1..(MaxStartCalls * MaxWorkerConcurrency)

NoWorker == [isProcessing |-> FALSE, concurrency |-> 0, calls |-> 0,
             starting |-> 0, loops |-> [l \in WorkerLoopIds |-> "unused"]]

\* this.concurrency = parseInt(process.env.QUEUE_CONCURRENCY, 10)
InitWorker ==
  \E c \in 1..MaxWorkerConcurrency : wk = [NoWorker EXCEPT !.concurrency = c]

UnusedLoops == {l \in WorkerLoopIds : wk.loops[l] = "unused"}

\* The `n` unused loop ids with the smallest numbers.
FirstUnused(n) ==
  {l \in UnusedLoops : Cardinality({k \in UnusedLoops : k < l}) < n}

\* "while (this.isProcessing)": where a loop goes after an iteration.
NextIteration == IF wk.isProcessing THEN "polling" ELSE "exited"

\* startWorker: "if (this.isProcessing) return", else it awaits
\* _cleanupOrphanedJobs().
StartWorker_call ==
  /\ wk.calls < MaxStartCalls
  /\ wk' = [wk EXCEPT !.calls = wk.calls + 1,
                      !.starting = IF wk.isProcessing THEN wk.starting
                                   ELSE wk.starting + 1]
  /\ UNCHANGED <<jobVars, bullVars, authVars, fetchVars, dataVars>>
  /\ UNCHANGED <<exp, cred, shut, drain>>

\* startWorker after the cleanup: this.isProcessing = true, and
\* `concurrency` processLoop invocations are started; each runs up to its
\* await of _getNextJobFromQueue.
StartWorker_launch ==
  /\ wk.starting > 0
  /\ wk' = [wk EXCEPT
       !.starting = wk.starting - 1,
       !.isProcessing = TRUE,
       !.loops = [l \in WorkerLoopIds |->
                    IF l \in FirstUnused(wk.concurrency) THEN "polling"
                    ELSE wk.loops[l]]]
  /\ UNCHANGED <<jobVars, bullVars, authVars, fetchVars, dataVars>>
  /\ UNCHANGED <<exp, cred, shut, drain>>

\* stopWorker: this.isProcessing = false.
StopWorker ==
  /\ wk.isProcessing
  /\ wk' = [wk EXCEPT !.isProcessing = FALSE]
  /\ UNCHANGED <<jobVars, bullVars, authVars, fetchVars, dataVars>>
  /\ UNCHANGED <<exp, cred, shut, drain>>

\* processLoop: _getNextJobFromQueue returned a job, _executeJobById runs.
WorkerLoop_getsJob(l) ==
  /\ wk.loops[l] = "polling"
  /\ wk' = [wk EXCEPT !.loops[l] = "executing"]
  /\ UNCHANGED <<jobVars, bullVars, authVars, fetchVars, dataVars>>
  /\ UNCHANGED <<exp, cred, shut, drain>>

\* processLoop: no job, the loop sleeps for a second.
WorkerLoop_noJob(l) ==
  /\ wk.loops[l] = "polling"
  /\ wk' = [wk EXCEPT !.loops[l] = "sleeping"]
  /\ UNCHANGED <<jobVars, bullVars, authVars, fetchVars, dataVars>>
  /\ UNCHANGED <<exp, cred, shut, drain>>

\* processLoop: _executeJobById or the sleep is over; the while condition is
\* tested again.
WorkerLoop_iterationEnds(l) ==
  /\ wk.loops[l] \in {"executing", "sleeping"}
  /\ wk' = [wk EXCEPT !.loops[l] = NextIteration]
  /\ UNCHANGED <<jobVars, bullVars, authVars, fetchVars, dataVars>>
  /\ UNCHANGED <<exp, cred, shut, drain>>

NextWorker ==
  \/ StartWorker_call
  \/ StartWorker_launch
  \/ StopWorker
  \/ \E l \in WorkerLoopIds :
       \/ WorkerLoop_getsJob(l)
       \/ WorkerLoop_noJob(l)
       \/ WorkerLoop_iterationEnds(l)

----------------------------------------------------------------------------
\* TableauService._getCredentialsForSite and its use by authenticate.  A site
\* name is a sequence of characters; process.env holds the global
\* TABLEAU_PAT_NAME / TABLEAU_PAT_SECRET and, for at most one site key,
\* <KEY>_PAT_NAME and/or <KEY>_PAT_SECRET.

MaxSiteNameLen == 2

SiteChars == {"a", "A", "-", "_"}
SiteNames == UNION {[1..n -> SiteChars] : n \in 1..MaxSiteNameLen}
NoSiteName == <<>>

\* String.prototype.toUpperCase, one character.
ToUpper(ch) == IF ch = "a" THEN "A" ELSE ch

\* siteName.toUpperCase().replace(/-/g, "_")
SiteKeyOf(siteName) ==
  [i \in 1..Len(siteName) |->
     IF ToUpper(siteName[i]) = "-" THEN "_" ELSE ToUpper(siteName[i])]

SiteKeys == {SiteKeyOf(n) : n \in SiteNames}

GlobalCredential == [from |-> "global", key |-> NoSiteName]
SiteCredential(key) == [from |-> "site", key |-> key]

\* process.env[`${siteKey}_PAT_NAME`] and process.env[`${siteKey}_PAT_SECRET`]
EnvPatName(env, siteKey) ==
  IF env.hasName /\ env.key = siteKey THEN SiteCredential(siteKey)
  ELSE GlobalCredential

EnvPatSecret(env, siteKey) ==
  IF env.hasSecret /\ env.key = siteKey THEN SiteCredential(siteKey)
  ELSE GlobalCredential

\* _getCredentialsForSite(siteName): without a site name the global pair;
\* otherwise process.env[key] || this.patName, the same for the secret.
getCredentialsForSite(siteName, env) ==
  IF siteName = NoSiteName
  THEN [patName |-> GlobalCredential, patSecret |-> GlobalCredential]
  ELSE [patName |-> EnvPatName(env, SiteKeyOf(siteName)),
        patSecret |-> EnvPatSecret(env, SiteKeyOf(siteName))]

\* authenticate(siteName): const {patName, patSecret} =
\* this._getCredentialsForSite()  -- called without an argument.
authenticateCredentials(siteName, env) ==
  getCredentialsForSite(NoSiteName, env)

NoCred == [pc |-> "none", site |-> NoSiteName,
           env |-> [key |-> NoSiteName, hasName |-> FALSE,
                    hasSecret |-> FALSE],
           used |-> [patName |-> GlobalCredential,
                     patSecret |-> GlobalCredential]]

InitCred ==
  \E site \in SiteNames, key \in SiteKeys, n \in BOOLEAN, x \in BOOLEAN :
    cred = [NoCred EXCEPT !.pc = "start", !.site = site,
              !.env = [key |-> key, hasName |-> n, hasSecret |-> x]]

\* authenticate(siteName) up to client.post: the sign-in payload carries the
\* credentials resolved.
Authenticate_signIn ==
  /\ cred.pc = "start"
  /\ cred' = [cred EXCEPT !.pc = "signin",
                          !.used = authenticateCredentials(cred.site, cred.env)]
  /\ UNCHANGED <<jobVars, bullVars, authVars, fetchVars, dataVars>>
  /\ UNCHANGED <<exp, wk, shut, drain>>

NextCred == Authenticate_signIn

----------------------------------------------------------------------------
\* ---- server.js: gracefulShutdown ----

MaxSignals == 2
MaxOpenConns == 1
MaxShutTicks == 2

\* setTimeout(..., 10000), in seconds.
SHUTDOWN_TIMEOUT_SEC == 10

SignalIds == 1..MaxSignals
ShutTickSteps == {1, SHUTDOWN_TIMEOUT_SEC}
NoTimer == 0 - 1

\* The web process after server.js has run: listening, no signal received.
NoShutdown ==
  [listening |-> TRUE, conns |-> 0, signals |-> 0,
   cb |-> [i \in SignalIds |-> "none"],
   timer |-> [i \in SignalIds |-> NoTimer],
   closeOutcome |-> "none",
   exited |-> FALSE, code |-> 0,
   now |-> 0, ticks |-> 0, signalAt |-> NoTimer, exitAt |-> NoTimer,
   events |-> <<>>]

\* Node emits 'close' on the server once it no longer listens and its last
\* connection has ended; the callbacks given to server.close run then.
CloseEmitted(listening, conns) == ~listening /\ conns = 0

\* process.exit(0) is reached by the callback that has run past
\* `await jobService.close()` and by nothing else.
ExitsZeroWithoutAwait(cbState) == cbState \in {"registered", "closing"}

ExitsZero(cbState) == cbState = "closing"

ArmedTimers == {shut.timer[i] : i \in {k \in SignalIds : shut.timer[k] # NoTimer}}

\* The earliest setTimeout deadline still pending, or `otherwise`.
NextDeadline(otherwise) ==
  IF ArmedTimers = {} THEN otherwise
  ELSE CHOOSE t \in ArmedTimers : \A u \in ArmedTimers : t <= u

\* A client connects while the listener accepts.
Http_connect ==
  /\ ~shut.exited
  /\ shut.listening
  /\ shut.conns < MaxOpenConns
  /\ shut' = [shut EXCEPT !.conns = @ + 1]
  /\ UNCHANGED <<jobVars, bullVars, authVars, fetchVars, dataVars>>
  /\ UNCHANGED <<exp, wk, cred, drain>>

\* A connection ends.
Http_disconnect ==
  /\ ~shut.exited
  /\ shut.conns > 0
  /\ shut' = [shut EXCEPT !.conns = @ - 1]
  /\ UNCHANGED <<jobVars, bullVars, authVars, fetchVars, dataVars>>
  /\ UNCHANGED <<exp, wk, cred, drain>>

\* gracefulShutdown(signal): server.close(callback) stops the listener and
\* registers the callback; setTimeout arms the forced exit.
GracefulShutdown ==
  /\ ~shut.exited
  /\ shut.signals < MaxSignals
  /\ LET i == shut.signals + 1 IN
       shut' = [shut EXCEPT
                  !.signals = i,
                  !.listening = FALSE,
                  !.cb[i] = "registered",
                  !.timer[i] = shut.now + SHUTDOWN_TIMEOUT_SEC,
                  !.signalAt = IF shut.signals = 0 THEN shut.now ELSE @,
                  !.events = IF shut.listening
                               THEN Append(@, "listenerStopped") ELSE @]
  /\ UNCHANGED <<jobVars, bullVars, authVars, fetchVars, dataVars>>
  /\ UNCHANGED <<exp, wk, cred, drain>>

\* The callback of server.close up to `await jobService.close()`.
Server_closeCallback(i) ==
  /\ ~shut.exited
  /\ shut.cb[i] = "registered"
  /\ CloseEmitted(shut.listening, shut.conns)
  /\ shut' = [shut EXCEPT !.cb[i] = "closing",
                          !.events = Append(@, "jobServiceClose")]
  /\ UNCHANGED <<jobVars, bullVars, authVars, fetchVars, dataVars>>
  /\ UNCHANGED <<exp, wk, cred, drain>>

\* jobService.close() settles (a rejection is caught and logged) and the
\* callback calls process.exit(0).
Server_exitZero(i) ==
  /\ ~shut.exited
  /\ ExitsZero(shut.cb[i])
  /\ \E outcome \in {"resolved", "rejected"} :
       shut' = [shut EXCEPT !.cb[i] = "done",
                            !.closeOutcome = outcome,
                            !.exited = TRUE, !.code = 0,
                            !.exitAt = shut.now,
                            !.events = Append(@, "exit0")]
  /\ UNCHANGED <<jobVars, bullVars, authVars, fetchVars, dataVars>>
  /\ UNCHANGED <<exp, wk, cred, drain>>

\* The setTimeout callback: process.exit(1).
Server_forcedExit(i) ==
  /\ ~shut.exited
  /\ shut.timer[i] # NoTimer
  /\ shut.now >= shut.timer[i]
  /\ shut' = [shut EXCEPT !.exited = TRUE, !.code = 1,
                          !.exitAt = shut.now,
                          !.events = Append(@, "exit1")]
  /\ UNCHANGED <<jobVars, bullVars, authVars, fetchVars, dataVars>>
  /\ UNCHANGED <<exp, wk, cred, drain>>

\* Time passes; a timer that is due runs before more time passes.
Shut_tick ==
  /\ ~shut.exited
  /\ shut.ticks < MaxShutTicks
  /\ shut.now < NextDeadline(shut.now + 1)
  /\ \E d \in ShutTickSteps :
       shut' = [shut EXCEPT !.ticks = @ + 1,
                            !.now = Min(shut.now + d,
                                        NextDeadline(shut.now + d))]
  /\ UNCHANGED <<jobVars, bullVars, authVars, fetchVars, dataVars>>
  /\ UNCHANGED <<exp, wk, cred, drain>>

NextShutdown ==
  \/ Http_connect
  \/ Http_disconnect
  \/ GracefulShutdown
  \/ \E i \in SignalIds : Server_closeCallback(i)
  \/ \E i \in SignalIds : Server_exitZero(i)
  \/ \E i \in SignalIds : Server_forcedExit(i)
  \/ Shut_tick

----------------------------------------------------------------------------
\* ---- worker.js: gracefulShutdown over JobService.stopWorker / close ----

MaxJobSeconds == 2
MaxDrainTicks == 3

JobOutcomes == {"completed", "pending", "failed"}

\* The worker process with its loop started and one job queued.
NoDrain ==
  [pc |-> "running", isProcessing |-> TRUE, redis |-> "open",
   job |-> "pending", executing |-> FALSE, left |-> 0,
   exited |-> FALSE, code |-> 0,
   now |-> 0, signalAt |-> NoTimer, exitAt |-> NoTimer]

\* processLoop: _getNextJobFromQueue returns the job, which is marked
\* processing, and _executeJobById calls the processor.
Drain_loopGetsJob ==
  /\ ~drain.exited
  /\ drain.isProcessing
  /\ drain.redis = "open"
  /\ drain.job = "pending"
  /\ ~drain.executing
  /\ \E s \in 1..MaxJobSeconds :
       drain' = [drain EXCEPT !.job = "processing", !.executing = TRUE,
                              !.left = s]
  /\ UNCHANGED <<jobVars, bullVars, authVars, fetchVars, dataVars>>
  /\ UNCHANGED <<exp, wk, cred, shut>>

\* The processor settles: completeJobById, or failJobById (retry or final),
\* writes the outcome when the Redis connection still takes commands.
Drain_processorSettles ==
  /\ ~drain.exited
  /\ drain.executing
  /\ drain.left = 0
  /\ \E outcome \in JobOutcomes :
       drain' = [drain EXCEPT
                   !.executing = FALSE,
                   !.job = IF drain.redis = "open" THEN outcome ELSE @]
  /\ UNCHANGED <<jobVars, bullVars, authVars, fetchVars, dataVars>>
  /\ UNCHANGED <<exp, wk, cred, shut>>

\* gracefulShutdown(signal) up to the end of `await jobService.stopWorker()`:
\* stopWorker only clears isProcessing.
Drain_signal ==
  /\ ~drain.exited
  /\ drain.pc = "running"
  /\ drain' = [drain EXCEPT !.pc = "stopped", !.isProcessing = FALSE,
                            !.signalAt = drain.now]
  /\ UNCHANGED <<jobVars, bullVars, authVars, fetchVars, dataVars>>
  /\ UNCHANGED <<exp, wk, cred, shut>>

\* JobService.close: stopWorker again, then redis.quit() is sent.
Drain_close ==
  /\ ~drain.exited
  /\ drain.pc = "stopped"
  /\ drain' = [drain EXCEPT !.pc = "quitting", !.isProcessing = FALSE,
                            !.redis = "quitting"]
  /\ UNCHANGED <<jobVars, bullVars, authVars, fetchVars, dataVars>>
  /\ UNCHANGED <<exp, wk, cred, shut>>

\* redis.quit() resolves and gracefulShutdown calls process.exit(0).
Drain_quitResolves ==
  /\ ~drain.exited
  /\ drain.pc = "quitting"
  /\ drain' = [drain EXCEPT !.pc = "done", !.redis = "closed",
                            !.exited = TRUE, !.code = 0,
                            !.exitAt = drain.now]
  /\ UNCHANGED <<jobVars, bullVars, authVars, fetchVars, dataVars>>
  /\ UNCHANGED <<exp, wk, cred, shut>>

\* redis.quit() rejects: the catch of gracefulShutdown calls process.exit(1).
Drain_quitRejects ==
  /\ ~drain.exited
  /\ drain.pc = "quitting"
  /\ drain' = [drain EXCEPT !.pc = "done", !.redis = "closed",
                            !.exited = TRUE, !.code = 1,
                            !.exitAt = drain.now]
  /\ UNCHANGED <<jobVars, bullVars, authVars, fetchVars, dataVars>>
  /\ UNCHANGED <<exp, wk, cred, shut>>

\* A second passes; the processor gets a second nearer to settling.
Drain_tick ==
  /\ ~drain.exited
  /\ drain.now < MaxDrainTicks
  /\ drain' = [drain EXCEPT !.now = @ + 1,
                            !.left = IF @ > 0 THEN @ - 1 ELSE @]
  /\ UNCHANGED <<jobVars, bullVars, authVars, fetchVars, dataVars>>
  /\ UNCHANGED <<exp, wk, cred, shut>>

NextDrain ==
  \/ Drain_loopGetsJob
  \/ Drain_processorSettles
  \/ Drain_signal
  \/ Drain_close
  \/ Drain_quitResolves
  \/ Drain_quitRejects
  \/ Drain_tick


----------------------------------------------------------------------------
\* ---- health.controller.js readinessCheck over JobService.getQueueStats ----

MaxReadyRequests == 2
MaxRedisChanges == 2

\* Redis as the commands of getQueueStats find it: answering, rejecting the
\* command, or unreachable (maxRetriesPerRequest: null keeps the command
\* waiting for the connection).
RedisStates == {"ok", "rejecting", "unreachable"}

\* The awaited commands of getQueueStats outside its inner try blocks, in
\* order, and the job details read inside them.
StatsCommands == <<"llen", "scard", "lrange", "smembers">>

NoReady ==
  [redis |-> "ok", changes |-> 0, requests |-> 0, pc |-> "idle", cmd |-> 0,
   stats |-> "none", code |-> 0]

\* What getQueueStats hands to readinessCheck when a command was rejected:
\* its catch returns the all-zero statistics with an `error` field.
getQueueStatsOnError == [stats |-> "zeros", thrown |-> FALSE]

\* readinessCheck: 200 after the await, 503 from the catch.
readinessStatus(thrown) == IF thrown THEN 503 ELSE 200

\* The connection to Redis changes.
Redis_changes ==
  /\ ready.changes < MaxRedisChanges
  /\ \E s \in RedisStates \ {ready.redis} :
       ready' = [ready EXCEPT !.redis = s, !.changes = @ + 1]
  /\ UNCHANGED <<jobVars, bullVars, authVars, fetchVars, restVars>>
  /\ UNCHANGED <<tf, csv, asm, deck>>

\* GET /health/ready: readinessCheck calls jobService.getQueueStats().
Ready_request ==
  /\ ready.pc = "idle"
  /\ ready.requests < MaxReadyRequests
  /\ ready' = [ready EXCEPT !.pc = "stats", !.cmd = 1, !.requests = @ + 1,
                            !.stats = "none", !.code = 0]
  /\ UNCHANGED <<jobVars, bullVars, authVars, fetchVars, restVars>>
  /\ UNCHANGED <<tf, csv, asm, deck>>

\* One of llen, scard, lrange, smembers is answered.
Stats_commandAnswered ==
  /\ ready.pc = "stats"
  /\ ready.redis = "ok"
  /\ ready' = IF ready.cmd < Len(StatsCommands)
                THEN [ready EXCEPT !.cmd = @ + 1]
                ELSE [ready EXCEPT !.pc = "details"]
  /\ UNCHANGED <<jobVars, bullVars, authVars, fetchVars, restVars>>
  /\ UNCHANGED <<tf, csv, asm, deck>>

\* One of them is rejected: the catch of getQueueStats returns.
Stats_commandRejected ==
  /\ ready.pc = "stats"
  /\ ready.redis = "rejecting"
  /\ ready' = [ready EXCEPT !.pc = "return",
                            !.stats = getQueueStatsOnError.stats]
  /\ UNCHANGED <<jobVars, bullVars, authVars, fetchVars, restVars>>
  /\ UNCHANGED <<tf, csv, asm, deck>>

\* The job details are read (an error of getJobById is caught per job) and the
\* statistics counted are returned.
Stats_detailsRead ==
  /\ ready.pc = "details"
  /\ ready.redis # "unreachable"
  /\ ready' = [ready EXCEPT !.pc = "return", !.stats = "counted"]
  /\ UNCHANGED <<jobVars, bullVars, authVars, fetchVars, restVars>>
  /\ UNCHANGED <<tf, csv, asm, deck>>

\* readinessCheck answers with what getQueueStats returned.
Ready_respond ==
  /\ ready.pc = "return"
  /\ ready' = [ready EXCEPT
                 !.pc = "idle",
                 !.code = readinessStatus(
                            ready.stats = "zeros"
                            /\ getQueueStatsOnError.thrown)]
  /\ UNCHANGED <<jobVars, bullVars, authVars, fetchVars, restVars>>
  /\ UNCHANGED <<tf, csv, asm, deck>>

NextReady ==
  \/ Redis_changes
  \/ Ready_request
  \/ Stats_commandAnswered
  \/ Stats_commandRejected
  \/ Stats_detailsRead
  \/ Ready_respond

----------------------------------------------------------------------------
\* ---- DataTransformerService: transformViewDataMap, transformTableauData,
\* _parseCsvToRowMaps, _transformTableFromRowMaps ----
\* A view is what transformTableauData sees of one entry of viewDataMap: the
\* view config of the catalog (hasConfig, viewType, the column schema) and the
\* payload (isString, and the rows _parseCsvToRows finds in it).  The schema
\* has the fields 1..n in catalog order; field k has fieldKey k and
\* columnName k, and needed[k] is its isNeededForView.  A cell of the CSV
\* header is the columnName it holds, 0 for a name the schema does not have.

MaxFields == 2
MaxCsvCols == 2
MaxDataRows == 1
MaxTfViews == 2

CellValues == {"", "v"}

SeqsUpTo(S, lo, hi) == UNION {[1..n -> S] : n \in lo..hi}

\* _parseCsvToRows keeps a row only if some cell of it is not "".
CsvRowsKept == {r \in SeqsUpTo(CellValues, 1, MaxCsvCols) :
                  \E c \in DOMAIN r : r[c] # ""}

NullResult == [kind |-> "null"]
NotSet == [kind |-> "unset"]

\* headerRow.forEach((name, idx) => { if (name) headerIndexByName.set(name,
\* idx) }): the last column of that name; 0 stands for undefined.
headerIndexByName(headerRow, columnName) ==
  LET hits == {i \in DOMAIN headerRow : headerRow[i] = columnName}
  IN IF hits = {} THEN 0 ELSE CHOOSE i \in hits : \A h \in hits : h <= i

\* Object.entries(columnsConfig) with the entries of isNeededForView false
\* left out: the needed fieldKeys in catalog order.
neededFields(needed) ==
  SelectSeq([k \in DOMAIN needed |-> k], LAMBDA k : needed[k])

\* activeFields of _parseCsvToRowMaps: the needed fields whose columnName is
\* in the CSV header.
activeFields(needed, headerRow) ==
  SelectSeq(neededFields(needed),
            LAMBDA k : headerIndexByName(headerRow, k) # 0)

\* rowMap[fieldKey] = row[csvIndex] !== undefined ? row[csvIndex] : ""
rowMapOf(active, headerRow, row) ==
  [k \in {active[a] : a \in DOMAIN active} |->
     LET csvIndex == headerIndexByName(headerRow, k)
     IN IF csvIndex \in DOMAIN row THEN row[csvIndex] ELSE ""]

\* _parseCsvToRowMaps(useCase, viewKey, viewConfig, csvText) on the rows of
\* csvText.
_parseCsvToRowMaps(needed, allRows) ==
  IF allRows = <<>> THEN <<>>
  ELSE LET headerRow == Head(allRows)
           dataRows == Tail(allRows)
           active == activeFields(needed, headerRow)
           kept == SelectSeq(dataRows,
                             LAMBDA row : \E c \in DOMAIN row : row[c] # "")
       IN IF active = <<>> THEN <<>>
          ELSE [r \in DOMAIN kept |-> rowMapOf(active, headerRow, kept[r])]

\* headers of a table that shows every field of the schema.
tableHeadersOfAllFields(needed, rowMaps) == [k \in DOMAIN needed |-> k]

\* const headers = Object.entries(columnsConfig).filter(([fieldKey, cfg]) =>
\*   cfg && cfg.isNeededForView !== false).map(...)
tableHeaders(needed, rowMaps) == neededFields(needed)

\* _transformTableFromRowMaps(viewConfig, rowMaps, context): every row is
\* headers.map(header => ({field, value: row[header.field] ?? "", format})).
_transformTableFromRowMaps(needed, rowMaps) ==
  IF rowMaps = <<>> THEN NullResult
  ELSE LET headers == tableHeaders(needed, rowMaps)
       IN IF headers = <<>> THEN NullResult
          ELSE [kind |-> "table",
                headers |-> [h \in DOMAIN headers |-> [field |-> headers[h]]],
                rows |-> [r \in DOMAIN rowMaps |->
                           [h \in DOMAIN headers |->
                              [field |-> headers[h],
                               value |->
                                 IF headers[h] \in DOMAIN rowMaps[r]
                                 THEN rowMaps[r][headers[h]] ELSE ""]]]]

\* _transformFlagCardFromRowMaps: the first key of the first row map, which
\* is the first active field.
_transformFlagCardFromRowMaps(needed, allRows, rowMaps) ==
  LET primaryFieldKey == Head(activeFields(needed, Head(allRows)))
  IN [kind |-> "flag", field |-> primaryFieldKey,
      value |-> rowMaps[1][primaryFieldKey]]

\* transformTableauData(useCase, viewKey, rawData); its own catch returns
\* null as well.
transformTableauData(view) ==
  IF ~view.hasConfig THEN NullResult
  ELSE IF view.viewType = "none" THEN NullResult
  ELSE IF ~view.isString THEN NullResult
  ELSE LET rowMaps == _parseCsvToRowMaps(view.needed, view.allRows)
       IN IF rowMaps = <<>> THEN NullResult
          ELSE IF view.viewType = "FLAG_CARD"
            THEN _transformFlagCardFromRowMaps(view.needed, view.allRows,
                                               rowMaps)
          ELSE IF view.viewType = "TABLE"
            THEN _transformTableFromRowMaps(view.needed, rowMaps)
          ELSE NullResult

\* A transformViewDataMap that lets the failure of one view end the call.
keepsTransformedAllOrNothing(out, viewKey, transformed) ==
  IF transformed = NullResult THEN [k \in DOMAIN out |-> NotSet]
  ELSE [out EXCEPT ![viewKey] = transformed]

\* if (transformed) { transformedData[viewKey] = transformed; }
keepsTransformed(out, viewKey, transformed) ==
  IF transformed = NullResult THEN out
  ELSE [out EXCEPT ![viewKey] = transformed]

NoTransform == [pc |-> "none", views |-> <<>>, i |-> 0, out |-> <<>>]

\* The rows _parseCsvToRows can find in a payload: none, or a header row and
\* the data rows.
CsvPayloads ==
  {<<>>} \cup {<<h>> \o d : h \in SeqsUpTo(0..MaxFields, 1, MaxCsvCols),
                            d \in SeqsUpTo(CsvRowsKept, 0, MaxDataRows)}

\* One view of each way transformTableauData can end, for the calls over
\* several views.
GoodTable ==
  [hasConfig |-> TRUE, viewType |-> "TABLE", isString |-> TRUE,
   needed |-> <<TRUE>>, allRows |-> <<<<1>>, <<"v">>>>]
SampleViews ==
  {GoodTable,
   [GoodTable EXCEPT !.viewType = "FLAG_CARD"],
   [GoodTable EXCEPT !.hasConfig = FALSE],
   [GoodTable EXCEPT !.viewType = "none"],
   [GoodTable EXCEPT !.viewType = "GAUGE"],
   [GoodTable EXCEPT !.isString = FALSE],
   [GoodTable EXCEPT !.allRows = <<<<0>>, <<"v">>>>],
   [GoodTable EXCEPT !.allRows = <<<<1>>>>]}

StartTransform(views) ==
  tf = [pc |-> "forEach", views |-> views, i |-> 0,
        out |-> [k \in DOMAIN views |-> NotSet]]

\* transformViewDataMap(useCase, viewDataMap) is called with one view that
\* has a config and a string payload, of every schema and CSV.
InitTableView ==
  \E t \in {"TABLE", "FLAG_CARD"} :
    \E nd \in SeqsUpTo(BOOLEAN, 0, MaxFields) :
      \E rows \in CsvPayloads :
        StartTransform(<<[hasConfig |-> TRUE, viewType |-> t,
                         isString |-> TRUE, needed |-> nd,
                         allRows |-> rows]>>)

\* transformViewDataMap is called with a map of one or more views.
InitViewDataMap ==
  \E views \in SeqsUpTo(SampleViews, 1, MaxTfViews) : StartTransform(views)

\* One round of viewDataMap.forEach: transform the view, keep what is truthy.
Transform_forEach ==
  /\ tf.pc = "forEach"
  /\ tf.i < Len(tf.views)
  /\ tf' = [tf EXCEPT
              !.i = tf.i + 1,
              !.out = keepsTransformed(tf.out, tf.i + 1,
                        transformTableauData(tf.views[tf.i + 1]))]
  /\ UNCHANGED <<jobVars, bullVars, authVars, fetchVars, restVars>>
  /\ UNCHANGED <<ready, csv, asm, deck>>

\* return transformedData
Transform_return ==
  /\ tf.pc = "forEach"
  /\ tf.i = Len(tf.views)
  /\ tf' = [tf EXCEPT !.pc = "returned"]
  /\ UNCHANGED <<jobVars, bullVars, authVars, fetchVars, restVars>>
  /\ UNCHANGED <<ready, csv, asm, deck>>

NextTransform ==
  \/ Transform_forEach
  \/ Transform_return

----------------------------------------------------------------------------
\* ---- DataTransformerService._parseCsvToRows(csvText) ----
\* A text is a sequence of characters, a cell is the text in it, a row is a
\* sequence of cells and a grid is a sequence of rows.  The grid is built one
\* symbol at a time (a character, a new cell, a new row), written as CSV and
\* parsed.

MaxCsvSymbols == 5

Chars == {"a", ",", "\"", "\n", "\r"}

\* A parser that takes every quote inside quotes for the closing quote.
noEscapedQuote(csvText, i) == FALSE

\* csvText[i + 1] === '"'
escapedQuote(csvText, i) == i + 1 <= Len(csvText) /\ csvText[i + 1] = "\""

\* currentRow.push(currentCell); if (currentRow.some((c) => c !== ""))
\* rows.push(currentRow)
pushRow(rows, currentRow, currentCell) ==
  LET row == Append(currentRow, currentCell)
  IN IF \E c \in DOMAIN row : row[c] # <<>> THEN Append(rows, row) ELSE rows

\* The for loop of _parseCsvToRows from position i on, and the code after it.
RECURSIVE parseFrom(_, _, _, _, _, _)
parseFrom(csvText, i, rows, currentRow, currentCell, inQuotes) ==
  IF i > Len(csvText)
  THEN IF currentCell # <<>> \/ currentRow # <<>>
       THEN pushRow(rows, currentRow, currentCell)
       ELSE rows
  ELSE LET ch == csvText[i]
       IN IF inQuotes
          THEN IF ch = "\""
               THEN IF escapedQuote(csvText, i)
                    THEN parseFrom(csvText, i + 2, rows, currentRow,
                                   Append(currentCell, "\""), TRUE)
                    ELSE parseFrom(csvText, i + 1, rows, currentRow,
                                   currentCell, FALSE)
               ELSE parseFrom(csvText, i + 1, rows, currentRow,
                              Append(currentCell, ch), TRUE)
          ELSE IF ch = "\""
               THEN parseFrom(csvText, i + 1, rows, currentRow, currentCell,
                              TRUE)
          ELSE IF ch = ","
               THEN parseFrom(csvText, i + 1, rows,
                              Append(currentRow, currentCell), <<>>, FALSE)
          ELSE IF ch = "\r"
               THEN parseFrom(csvText, i + 1, rows, currentRow, currentCell,
                              FALSE)
          ELSE IF ch = "\n"
               THEN parseFrom(csvText, i + 1,
                              pushRow(rows, currentRow, currentCell),
                              <<>>, <<>>, FALSE)
          ELSE parseFrom(csvText, i + 1, rows, currentRow,
                         Append(currentCell, ch), FALSE)

_parseCsvToRows(csvText) == parseFrom(csvText, 1, <<>>, <<>>, <<>>, FALSE)

\* The writer of RFC 4180: a cell is quoted when it holds a comma, a quote or
\* a line break (or always), a quote inside quotes is doubled, cells are
\* joined by commas and rows by CRLF, and the last row may end with CRLF.
RECURSIVE doubleQuotes(_)
doubleQuotes(cell) ==
  IF cell = <<>> THEN <<>>
  ELSE (IF Head(cell) = "\"" THEN <<"\"", "\"">> ELSE <<Head(cell)>>)
         \o doubleQuotes(Tail(cell))

writeCell(cell, quoteAll) ==
  IF quoteAll \/ \E i \in DOMAIN cell : cell[i] \in {",", "\"", "\n", "\r"}
  THEN <<"\"">> \o doubleQuotes(cell) \o <<"\"">>
  ELSE cell

RECURSIVE join(_, _)
join(texts, separator) ==
  IF texts = <<>> THEN <<>>
  ELSE IF Len(texts) = 1 THEN texts[1]
  ELSE texts[1] \o separator \o join(Tail(texts), separator)

writeCsv(grid, quoteAll, endWithBreak) ==
  join([r \in DOMAIN grid |->
          join([c \in DOMAIN grid[r] |-> writeCell(grid[r][c], quoteAll)],
               <<",">>)],
       <<"\r", "\n">>)
    \o (IF endWithBreak THEN <<"\r", "\n">> ELSE <<>>)

NoCsv == [pc |-> "none", grid |-> <<>>, n |-> 0, text |-> <<>>, rows |-> <<>>]

\* A grid of one row with one empty cell, to be filled.
InitCsv ==
  csv = [pc |-> "building", grid |-> <<<<<<>>>>>>, n |-> 0, text |-> <<>>,
         rows |-> <<>>]

\* The next character of the last cell.
Csv_putChar ==
  /\ csv.pc = "building"
  /\ csv.n < MaxCsvSymbols
  /\ \E ch \in Chars :
       LET r == Len(csv.grid)
           c == Len(csv.grid[r])
       IN csv' = [csv EXCEPT !.n = csv.n + 1,
                             !.grid[r][c] = Append(csv.grid[r][c], ch)]
  /\ UNCHANGED <<jobVars, bullVars, authVars, fetchVars, restVars>>
  /\ UNCHANGED <<ready, tf, asm, deck>>

\* The last row gets one more cell.
Csv_nextCell ==
  /\ csv.pc = "building"
  /\ csv.n < MaxCsvSymbols
  /\ csv' = [csv EXCEPT !.n = csv.n + 1,
                        !.grid[Len(csv.grid)] =
                            Append(csv.grid[Len(csv.grid)], <<>>)]
  /\ UNCHANGED <<jobVars, bullVars, authVars, fetchVars, restVars>>
  /\ UNCHANGED <<ready, tf, asm, deck>>

\* The grid gets one more row.
Csv_nextRow ==
  /\ csv.pc = "building"
  /\ csv.n < MaxCsvSymbols
  /\ csv' = [csv EXCEPT !.n = csv.n + 1,
                        !.grid = Append(csv.grid, <<<<>>>>)]
  /\ UNCHANGED <<jobVars, bullVars, authVars, fetchVars, restVars>>
  /\ UNCHANGED <<ready, tf, asm, deck>>

\* The grid is written as CSV and the text is given to _parseCsvToRows.
Csv_parse ==
  /\ csv.pc = "building"
  /\ \E quoteAll, endWithBreak \in BOOLEAN :
       LET text == writeCsv(csv.grid, quoteAll, endWithBreak)
       IN csv' = [csv EXCEPT !.pc = "parsed", !.text = text,
                             !.rows = _parseCsvToRows(text)]
  /\ UNCHANGED <<jobVars, bullVars, authVars, fetchVars, restVars>>
  /\ UNCHANGED <<ready, tf, asm, deck>>

NextCsv ==
  \/ Csv_putChar
  \/ Csv_nextCell
  \/ Csv_nextRow
  \/ Csv_parse

----------------------------------------------------------------------------
\* ---- PptConfigService._renderTable and buildTableFromConfig ----
\* The table data of a view is {headers, rows}; a row is an array of cells
\* that may be shorter or longer than headers and may have holes.  A cell of
\* the input is the text of its value, NoCell for a hole (undefined).

MaxTableCols == 2
MaxTableRows == 2

NoCell == "undefined"
CellsGiven == {"v", NoCell}

\* A data row that has one cell per cell of the input row.
dataRowOfRowCells(headers, row) ==
  [colIndex \in DOMAIN row |->
     [text |-> IF row[colIndex] # NoCell THEN row[colIndex] ELSE "",
      isHeader |-> FALSE]]

\* headers.map((header, colIndex) => createCell(row[colIndex] || {value: "",
\* format: FORMAT_TYPES.STRING}, ...))
dataRow(headers, row) ==
  [colIndex \in DOMAIN headers |->
     [text |-> IF colIndex \in DOMAIN row /\ row[colIndex] # NoCell
               THEN row[colIndex] ELSE "",
      isHeader |-> FALSE]]

\* headers.map((header, colIndex) => createCell({value: header.value ||
\* header, ...}, true, ...))
headerRow(headers) ==
  [colIndex \in DOMAIN headers |->
     [text |-> headers[colIndex], isHeader |-> TRUE]]

\* buildTableFromConfig(tableData, tableConfig).data:
\* [headerRow, ...dataRows]
buildTableFromConfig(tableData) ==
  <<headerRow(tableData.headers)>> \o
    [r \in DOMAIN tableData.rows |->
       dataRow(tableData.headers, tableData.rows[r])]

NoTable == <<>>

\* _renderTable(element, viewData): null when the view has no data.
_renderTable(data) ==
  IF ~data.present THEN NoTable
  ELSE buildTableFromConfig([headers |-> data.headers, rows |-> data.rows])

NoAssembly == [pc |-> "none",
               data |-> [present |-> FALSE, headers |-> <<>>, rows |-> <<>>],
               table |-> NoTable]

\* A table element is about to be rendered from the data of its view.
InitAssembly ==
  \E present \in BOOLEAN :
    \E numCols \in 0..MaxTableCols :
      \E rows \in SeqsUpTo(SeqsUpTo(CellsGiven, 0, MaxTableCols + 1),
                           0, MaxTableRows) :
        /\ ~present => (numCols = 0 /\ rows = <<>>)
        /\ asm = [pc |-> "render",
                  data |-> [present |-> present,
                            headers |-> [c \in 1..numCols |-> "h"],
                            rows |-> rows],
                  table |-> NoTable]

RenderTable ==
  /\ asm.pc = "render"
  /\ asm' = [asm EXCEPT !.pc = "rendered", !.table = _renderTable(asm.data)]
  /\ UNCHANGED <<jobVars, bullVars, authVars, fetchVars, restVars>>
  /\ UNCHANGED <<ready, tf, csv, deck>>

NextAssembly == RenderTable

----------------------------------------------------------------------------
\* ---- getPptConfig: the generic engine (slide-view-mapping.json) and the
\* use-case engine (PoliticalSnapshotService) ----
\* A manifest is a sequence of slide descriptors, a descriptor a sequence of
\* elements.  The elements that take data take it from the view DataKey;
\* OtherKey is a view no element uses.  The manifest of the generic engine is
\* built one symbol at a time (a slide, an element, a part of a TEXT
\* element); the use-case engine builds the slides its code lists.

MaxManifestSymbols == 4
TOTAL_SLIDES == 11

DataKey == "A"
OtherKey == "B"
ViewKeys == {DataKey, OtherKey}

NoElement == [type |-> "null"]

PartsGiven ==
  {[kind |-> "text", text |-> "t", fallback |-> FALSE],
   [kind |-> "value", text |-> "", fallback |-> TRUE],
   [kind |-> "value", text |-> "", fallback |-> FALSE]}

ElementsGiven ==
  {[type |-> "TEXT", hasContent |-> FALSE, content |-> <<>>],
   [type |-> "TEXT", hasContent |-> TRUE, content |-> <<>>],
   [type |-> "TABLE", hasContent |-> FALSE, content |-> <<>>],
   [type |-> "SHAPE", hasContent |-> FALSE, content |-> <<>>],
   [type |-> "VIDEO", hasContent |-> FALSE, content |-> <<>>]}

\* The parts of element.content that give a text part: a valueKey part gives
\* the value of the view, else its fallback, else nothing; a static part
\* gives its text.
textPartOf(part, viewData) ==
  IF part.kind = "value"
  THEN IF DataKey \in viewData THEN "value"
       ELSE IF part.fallback THEN "fallback" ELSE ""
  ELSE part.text

textParts(element, viewData) ==
  LET used == SelectSeq(element.content,
                        LAMBDA part : textPartOf(part, viewData) # "")
  IN [p \in DOMAIN used |-> [text |-> textPartOf(used[p], viewData)]]

\* _renderText(element, viewData):
\*   if (textParts.length === 0 && !element.content) return null;
\*   if (element.content && element.content.length === 0)
\*     textParts.push({ text: "" });
_renderText(element, viewData) ==
  IF ~element.hasContent THEN NoElement
  ELSE IF element.content = <<>>
  THEN [type |-> "TEXT", text |-> <<[text |-> ""]>>]
  ELSE [type |-> "TEXT", text |-> textParts(element, viewData)]

\* _createFlagCardText(viewData, viewKey, label, position)
_createFlagCardText(viewData, label) ==
  IF DataKey \notin viewData THEN NoElement
  ELSE [type |-> "TEXT", text |-> <<[text |-> "value"], [text |-> label]>>]

\* The table of the view DataKey, as _renderTable gives it.
TableOf(viewData) ==
  _renderTable([present |-> DataKey \in viewData, headers |-> <<"h">>,
                rows |-> <<>>])

\* One round of the switch of _buildSlide: what the element adds to the
\* slide, NoElement when it adds nothing.
renderElement(element, viewData) ==
  CASE element.type = "TEXT" -> _renderText(element, viewData)
    [] element.type = "TABLE" ->
         IF TableOf(viewData) = NoTable THEN NoElement
         ELSE [type |-> "TABLE", data |-> TableOf(viewData)]
    [] element.type = "SHAPE" -> [type |-> "SHAPE"]
    [] OTHER -> NoElement

\* _buildSlide(slideConfig, viewData): the elements rendered, in order.
_buildSlide(slideConfig, viewData) ==
  LET kept == SelectSeq(slideConfig,
                        LAMBDA el : renderElement(el, viewData) # NoElement)
  IN [e \in DOMAIN kept |-> renderElement(kept[e], viewData)]

\* The slide descriptors the code of the use-case engine stands for: two
\* static slides, the slide of the flag cards, and the slides of a table or
\* chart.
Label(slideNumber) ==
  [type |-> "TEXT", text |-> <<[text |-> slideNumber]>>]

\* _createSlide(slideNumber, viewData)
_createSlide(slideNumber, viewData) ==
  IF slideNumber <= 2 THEN <<Label(slideNumber)>>
  ELSE IF slideNumber = 3
  THEN <<Label(slideNumber)>> \o
         (IF _createFlagCardText(viewData, "l") = NoElement THEN <<>>
          ELSE <<_createFlagCardText(viewData, "l")>>)
  ELSE IF TableOf(viewData) = NoTable THEN <<Label(slideNumber)>>
  ELSE <<Label(slideNumber), [type |-> "TABLE", data |-> TableOf(viewData)]>>

\* A getPptConfig that leaves out the slides that have no element.
pushSlideUnlessEmpty(slides, slide) ==
  IF slide = <<>> THEN slides ELSE Append(slides, slide)

\* slides.push(slide)
pushSlide(slides, slide) == Append(slides, slide)

NoDeck == [pc |-> "none", engine |-> "generic", manifest |-> <<>>, n |-> 0,
           viewData |-> {}, i |-> 0, slides |-> <<>>, err |-> "none"]

\* The generic engine with a manifest that has no slide yet, or the
\* use-case engine called with some view data.
InitDeck ==
  \/ deck = [NoDeck EXCEPT !.pc = "manifest"]
  \/ \E viewData \in SUBSET ViewKeys :
       deck = [NoDeck EXCEPT !.pc = "slides", !.engine = "useCase",
                             !.viewData = viewData]

\* slide-view-mapping.json gets one more slide descriptor.
Manifest_newSlide ==
  /\ deck.pc = "manifest"
  /\ deck.n < MaxManifestSymbols
  /\ deck' = [deck EXCEPT !.n = deck.n + 1,
                          !.manifest = Append(deck.manifest, <<>>)]
  /\ UNCHANGED <<jobVars, bullVars, authVars, fetchVars, restVars>>
  /\ UNCHANGED <<ready, tf, csv, asm>>

\* The last slide descriptor gets one more element.
Manifest_newElement ==
  /\ deck.pc = "manifest"
  /\ deck.n < MaxManifestSymbols
  /\ deck.manifest # <<>>
  /\ \E element \in ElementsGiven :
       LET s == Len(deck.manifest)
       IN deck' = [deck EXCEPT !.n = deck.n + 1,
                     !.manifest[s] = Append(deck.manifest[s], element)]
  /\ UNCHANGED <<jobVars, bullVars, authVars, fetchVars, restVars>>
  /\ UNCHANGED <<ready, tf, csv, asm>>

\* The content of the last element, a TEXT element, gets one more part.
Manifest_newPart ==
  /\ deck.pc = "manifest"
  /\ deck.n < MaxManifestSymbols
  /\ deck.manifest # <<>>
  /\ LET s == Len(deck.manifest)
         e == Len(deck.manifest[s])
     IN /\ e > 0
        /\ deck.manifest[s][e].type = "TEXT"
        /\ deck.manifest[s][e].hasContent
        /\ \E part \in PartsGiven :
             deck' = [deck EXCEPT !.n = deck.n + 1,
                        !.manifest[s][e].content =
                           Append(deck.manifest[s][e].content, part)]
  /\ UNCHANGED <<jobVars, bullVars, authVars, fetchVars, restVars>>
  /\ UNCHANGED <<ready, tf, csv, asm>>

\* getPptConfig({useCase, viewData}) of the generic engine is called.
Generic_getPptConfig ==
  /\ deck.pc = "manifest"
  /\ \E viewData \in SUBSET ViewKeys :
       deck' = [deck EXCEPT !.pc = "slides", !.viewData = viewData]
  /\ UNCHANGED <<jobVars, bullVars, authVars, fetchVars, restVars>>
  /\ UNCHANGED <<ready, tf, csv, asm>>

\* for (const slideConfig of slideMapping.slides) { slides.push(await
\* this._buildSlide(slideConfig, viewData)) }: one round.
Generic_buildSlide ==
  /\ deck.pc = "slides"
  /\ deck.engine = "generic"
  /\ deck.i < Len(deck.manifest)
  /\ deck' = [deck EXCEPT !.i = deck.i + 1,
                          !.slides =
                            pushSlide(deck.slides,
                                      _buildSlide(deck.manifest[deck.i + 1],
                                                  deck.viewData))]
  /\ UNCHANGED <<jobVars, bullVars, authVars, fetchVars, restVars>>
  /\ UNCHANGED <<ready, tf, csv, asm>>

\* return {TITLE, LAYOUT, SLIDES: slides}
Generic_return ==
  /\ deck.pc = "slides"
  /\ deck.engine = "generic"
  /\ deck.i = Len(deck.manifest)
  /\ deck' = [deck EXCEPT !.pc = "returned"]
  /\ UNCHANGED <<jobVars, bullVars, authVars, fetchVars, restVars>>
  /\ UNCHANGED <<ready, tf, csv, asm>>

\* if (!viewData || Object.keys(viewData).length === 0) throw new
\* Error('viewData is required for PPT generation')
UseCase_viewDataRequired ==
  /\ deck.pc = "slides"
  /\ deck.engine = "useCase"
  /\ deck.viewData = {}
  /\ deck' = [deck EXCEPT !.pc = "threw", !.err = "ViewDataRequired"]
  /\ UNCHANGED <<jobVars, bullVars, authVars, fetchVars, restVars>>
  /\ UNCHANGED <<ready, tf, csv, asm>>

\* for (slideNumber = 1; slideNumber <= this.TOTAL_SLIDES; slideNumber++)
\* { slides.push(await this._createSlide(slideNumber, dataToUse)) }
UseCase_createSlide ==
  /\ deck.pc = "slides"
  /\ deck.engine = "useCase"
  /\ deck.viewData # {}
  /\ deck.i < TOTAL_SLIDES
  /\ deck' = [deck EXCEPT !.i = deck.i + 1,
                          !.slides =
                            pushSlide(deck.slides,
                                      _createSlide(deck.i + 1,
                                                   deck.viewData))]
  /\ UNCHANGED <<jobVars, bullVars, authVars, fetchVars, restVars>>
  /\ UNCHANGED <<ready, tf, csv, asm>>

UseCase_return ==
  /\ deck.pc = "slides"
  /\ deck.engine = "useCase"
  /\ deck.viewData # {}
  /\ deck.i = TOTAL_SLIDES
  /\ deck' = [deck EXCEPT !.pc = "returned"]
  /\ UNCHANGED <<jobVars, bullVars, authVars, fetchVars, restVars>>
  /\ UNCHANGED <<ready, tf, csv, asm>>

NextDeck ==
  \/ Manifest_newSlide
  \/ Manifest_newElement
  \/ Manifest_newPart
  \/ Generic_getPptConfig
  \/ Generic_buildSlide
  \/ Generic_return
  \/ UseCase_viewDataRequired
  \/ UseCase_createSlide
  \/ UseCase_return

\* No readiness request, retention run, transform, parse or table is under way.
DataAtRest ==
  /\ ready = NoReady
  /\ tf = NoTransform
  /\ csv = NoCsv
  /\ asm = NoAssembly
  /\ deck = NoDeck

----------------------------------------------------------------------------
\* The specifications: one subsystem runs, the others stay as constructed.

\* No call of fetchViewsDataInParallel has been made.
NoFetch ==
  /\ fetch = [pc |-> "none", n |-> 0, concurrency |-> 1, known |-> {}, i |-> 0]
  /\ ftask = [k \in ViewIdx |-> NoTask]
  /\ fresults = [k \in ViewIdx |-> Absent]

\* JobService as constructed with the default QUEUE_ATTEMPTS.
JobAtRest == InitJob /\ cfgAttempts = MaxQueueAttempts

\* No processExport call, worker, sign-in or shutdown is under way.
ProcessesAtRest ==
  /\ exp = IdleExport
  /\ wk = NoWorker
  /\ cred = NoCred
  /\ shut = NoShutdown
  /\ drain = NoDrain

RestAtRest == ProcessesAtRest /\ DataAtRest

InitJobService == InitJob /\ InitBull /\ InitAuth /\ NoFetch /\ RestAtRest

InitAtRest == JobAtRest /\ InitBull /\ InitAuth /\ NoFetch /\ RestAtRest

InitRequests ==
  JobAtRest /\ InitJobApi /\ InitAuth /\ NoFetch /\ RestAtRest

InitParallelFetch ==
  JobAtRest /\ InitBull /\ InitAuth /\ InitFetch /\ RestAtRest

InitStartWorker ==
  /\ JobAtRest /\ InitBull /\ InitAuth /\ NoFetch
  /\ exp = IdleExport
  /\ InitWorker
  /\ cred = NoCred
  /\ shut = NoShutdown
  /\ drain = NoDrain
  /\ DataAtRest

InitSignIn ==
  /\ JobAtRest /\ InitBull /\ InitAuth /\ NoFetch
  /\ exp = IdleExport
  /\ wk = NoWorker
  /\ InitCred
  /\ shut = NoShutdown
  /\ drain = NoDrain
  /\ DataAtRest

InitProcessExport ==
  /\ JobAtRest /\ InitBull /\ InitAuth /\ NoFetch
  /\ InitExport
  /\ wk = NoWorker
  /\ cred = NoCred
  /\ shut = NoShutdown
  /\ drain = NoDrain
  /\ DataAtRest

SpecJob == InitJobService /\ [][NextJob]_vars

SpecBull == InitAtRest /\ [][NextBull]_vars

SpecJobApi == InitRequests /\ [][NextJobApi]_vars

SpecAuth == InitAtRest /\ [][NextAuth]_vars

SpecFetch == InitParallelFetch /\ [][NextFetch]_vars

SpecExport == InitProcessExport /\ [][NextExport]_vars

SpecWorker == InitStartWorker /\ [][NextWorker]_vars

SpecCred == InitSignIn /\ [][NextCred]_vars

SpecShutdown == InitAtRest /\ [][NextShutdown]_vars

SpecDrain == InitAtRest /\ [][NextDrain]_vars

SpecReady == InitAtRest /\ [][NextReady]_vars

InitWaitingJob == InitFifo /\ InitBull /\ InitAuth /\ NoFetch /\ RestAtRest

SpecFifo == InitWaitingJob /\ [][NextFifo]_vars

InitTransformView ==
  /\ JobAtRest /\ InitBull /\ InitAuth /\ NoFetch /\ ProcessesAtRest
  /\ ready = NoReady /\ InitTableView /\ csv = NoCsv /\ asm = NoAssembly
  /\ deck = NoDeck

SpecTransform == InitTransformView /\ [][NextTransform]_vars

InitTransformMap ==
  /\ JobAtRest /\ InitBull /\ InitAuth /\ NoFetch /\ ProcessesAtRest
  /\ ready = NoReady /\ InitViewDataMap /\ csv = NoCsv /\ asm = NoAssembly
  /\ deck = NoDeck

SpecTransformMap == InitTransformMap /\ [][NextTransform]_vars

InitCsvGrid ==
  /\ JobAtRest /\ InitBull /\ InitAuth /\ NoFetch /\ ProcessesAtRest
  /\ ready = NoReady /\ tf = NoTransform /\ InitCsv /\ asm = NoAssembly
  /\ deck = NoDeck

SpecCsv == InitCsvGrid /\ [][NextCsv]_vars

InitTableElement ==
  /\ JobAtRest /\ InitBull /\ InitAuth /\ NoFetch /\ ProcessesAtRest
  /\ ready = NoReady /\ tf = NoTransform /\ csv = NoCsv /\ InitAssembly
  /\ deck = NoDeck

SpecAssembly == InitTableElement /\ [][NextAssembly]_vars

InitSlideDeck ==
  /\ JobAtRest /\ InitBull /\ InitAuth /\ NoFetch /\ ProcessesAtRest
  /\ ready = NoReady /\ tf = NoTransform /\ csv = NoCsv /\ asm = NoAssembly
  /\ InitDeck

SpecDeck == InitSlideDeck /\ [][NextDeck]_vars

SpecStuck == InitAtRest /\ [][NextStuck]_vars

InitTwoSites ==
  /\ JobAtRest /\ InitBull /\ InitAuthSites /\ NoFetch /\ RestAtRest

SpecAuthSites == InitTwoSites /\ [][NextAuthSites]_vars

InitAnyConcurrency ==
  JobAtRest /\ InitBull /\ InitAuth /\ InitFetchAny /\ RestAtRest

\* Every pending continuation of the event loop is run in the end.
SpecFetchAny ==
  InitAnyConcurrency /\ [][NextFetch]_vars /\ WF_vars(NextFetch)

----------------------------------------------------------------------------
\* Claims about JobService (checked under SpecJob).

InQueue(j) == \E i \in 1..Len(queue) : queue[i] = j

\* A processor invocation is in progress in loop l.
Executing(l) == loop[l].pc \in {"running", "notify"}

\* C1: in every reachable state each job's attempts counter is at most its
\* maxAttempts.
C1_AttemptsWithinMax ==
  \A j \in JobIds :
    store[j] # NoJob => store[j].attempts <= store[j].maxAttempts

\* C2: once a job is completed no step changes its state again (it is never
\* moved back to pending or to processing).
C2_CompletedIsFinal ==
  [][\A j \in JobIds :
       store[j].status = "completed" => store'[j].status = "completed"]_vars

\* C3: a failed job leaves the failed state only through an explicit retry
\* request; JobService has none, so no step of a worker loop or of the
\* stuck-job cleanup changes the state of a failed job.
C3_FailedLeavesOnlyByRetry ==
  [][\A j \in JobIds :
       store[j].status = "failed" => store'[j].status = "failed"]_vars

\* C4: a job id is leased exclusively: no two processor invocations execute
\* the same job at the same time.
C4_ExclusiveLease ==
  \A l1, l2 \in Loops :
    (l1 # l2 /\ Executing(l1) /\ Executing(l2)) => loop[l1].jid # loop[l2].jid

\* C6: after its n-th failed attempt a retried job is not leasable (its id is
\* not on the waiting list) before base * 2^(n-1) has passed since the failure.
C6_RetryWaitsForBackoff ==
  \A j \in JobIds :
    (store[j] # NoJob /\ retryAt[j] # NoTime /\ InQueue(j)) =>
      now - retryAt[j] >= BackoffSec(store[j].attempts)

\* C7: a failure e-mail is requested only for a job that terminally fails: a
\* job for which one was requested is never waiting for a retry and never
\* completes.
C7_FailureEmailOnlyWhenTerminal ==
  \A j \in emailed : store[j].status \notin {"pending", "completed"}

----------------------------------------------------------------------------
\* Claims about the token single-flight (checked under SpecAuth).

\* C5: for each site at most one authenticate call is in flight, and every
\* caller that waits for a sign-in still in flight waits for that one call.
C5_SingleFlightPerSite ==
  /\ \A s \in Sites : Cardinality(InFlight(s)) <= 1
  /\ \A c \in Callers :
       (caller[c].pc = "waiting" /\ authCalls[caller[c].awaits].st = "inflight")
         => caller[c].awaits \in InFlight(caller[c].site)

\* Two callers asked for the same site without a valid cached token and both
\* wait for the one sign-in that is out.
C5_TwoCallersShareOneSignIn ==
  \E c1, c2 \in Callers :
    /\ c1 # c2
    /\ caller[c1].pc = "waiting" /\ caller[c2].pc = "waiting"
    /\ caller[c1].site = caller[c2].site
    /\ caller[c1].awaits = caller[c2].awaits
    /\ authCalls[caller[c1].awaits].st = "inflight"

----------------------------------------------------------------------------
\* Claims about the BullMQ worker processor (checked under SpecBull).

\* C8: an error of the failure e-mail is suppressed: what the processor throws
\* is the error of processExport, and the failedReason recorded for a failed
\* job is that error, never the e-mail error.
C8_FailedReasonIsOriginalError ==
  \A j \in BullIds :
    /\ bproc[j].pc = "throw" => bproc[j].err = bhist.cause[j]
    /\ bjobs[j].state = "failed" =>
         /\ bjobs[j].failedReason = bhist.cause[j]
         /\ bjobs[j].failedReason \in ProcErrors

\* A job failed for good although sending its failure e-mail threw.
C8_FailedAfterEmailError ==
  \E j \in BullIds :
    /\ bjobs[j].state = "failed"
    /\ j \in bhist.notifyThrew

----------------------------------------------------------------------------
\* Claims about fetchViewsDataInParallel (checked under SpecFetch).

Present(k) == fresults[k] # Absent

Pending(k) == ftask[k].st \in {"started", "inflight", "retrying"}

SameBatch(k1, k2) ==
  (k1 - 1) \div fetch.concurrency = (k2 - 1) \div fetch.concurrency

\* C9: the keys of the map are view keys of the input; an entry is only ever
\* the data of its own view's successful fetch; and in the returned map a view
\* key is absent exactly when that view's fetch failed.
C9_MapHoldsExactlyTheFetchedViews ==
  /\ \A k \in ViewIdx :
       Present(k) => /\ k \in 1..fetch.n
                     /\ ftask[k].st = "ok"
                     /\ fresults[k] = ViewData(k)
  /\ fetch.pc = "returned" =>
       \A k \in 1..fetch.n :
         /\ Settled(k)
         /\ ~Present(k) <=> ftask[k].st = "failed"

\* The call returned; in one batch a view failed and another view's data is in
\* the map.
C9_FailureBesideSuccess ==
  /\ fetch.pc = "returned"
  /\ \E k1, k2 \in 1..fetch.n :
       /\ SameBatch(k1, k2)
       /\ ftask[k1].st = "failed" /\ ~Present(k1)
       /\ fresults[k2] = ViewData(k2)

\* C10: at most `concurrency` per-view requests are pending; they all belong
\* to the current batch; every view of an earlier batch has settled and no
\* view of a later batch has been started.
C10_BatchesBoundInFlight ==
  /\ Cardinality({k \in ViewIdx : Pending(k)}) <= fetch.concurrency
  /\ \A k \in ViewIdx :
       /\ Pending(k) =>
            /\ fetch.pc = "awaiting"
            /\ k \in (fetch.i + 1)..(fetch.i + fetch.concurrency)
       /\ (k <= fetch.i /\ k <= fetch.n) => Settled(k)
       /\ k > fetch.i + fetch.concurrency => ftask[k].st = "none"

\* A full batch of two or more requests is out while a later batch waits.
C10_FullBatchInFlight ==
  /\ fetch.concurrency >= 2
  /\ Cardinality({k \in ViewIdx : ftask[k].st = "inflight"}) = fetch.concurrency
  /\ fetch.n > fetch.i + fetch.concurrency

----------------------------------------------------------------------------
\* Claims about processExport (checked under SpecExport).

AllFetchesFailed == \A k \in 1..fetch.n : ftask[k].st = "failed"

\* C11: if every per-view fetch fails, fetchViewsDataInParallel does not throw
\* but returns an empty map, and processExport throws "No view data was
\* successfully fetched" without transforming, assembling or sending the
\* success e-mail.
C11_NoViewDataIsHardFailure ==
  (exp.pc # "none" /\ fetch.pc # "none" /\ AllFetchesFailed) =>
    /\ fetch.pc # "threw"
    /\ FetchedViews = {}
    /\ fetch.pc = "returned" =>
         /\ exp.pc \in {"fetching", "threw"}
         /\ exp.pc = "threw" => exp.err = "NoViewData"
         /\ exp.transformed = {}
         /\ ~exp.assembled
         /\ ~exp.emailed

\* Two or more views were asked for, all failed, and processExport threw.
C11_AllViewsFailedAndThrew ==
  /\ fetch.n >= 2
  /\ fetch.pc = "returned"
  /\ AllFetchesFailed
  /\ exp.pc = "threw"
  /\ exp.err = "NoViewData"

\* C12: if the transformed map is empty although views were fetched,
\* processExport fails the attempt before the presentation is assembled, and
\* no success e-mail is sent.
C12_EmptyTransformIsFatal ==
  (exp.pc \in {"build", "send", "returned", "threw"}
     /\ FetchedViews # {} /\ exp.transformed = {}) =>
    /\ exp.pc = "threw"
    /\ ~exp.assembled
    /\ ~exp.emailed

\* C13: a partial fetch failure is not fatal: processExport throws the
\* no-view-data error only when no view was fetched, and when it returns,
\* viewsProcessed is the number of views fetched successfully.
C13_PartialFailureIsNotFatal ==
  /\ exp.err = "NoViewData" => \A k \in 1..fetch.n : ftask[k].st # "ok"
  /\ exp.err = "FetchFailed" => fetch.pc = "threw"
  /\ exp.pc = "returned" =>
       /\ exp.viewsProcessed =
            Cardinality({k \in 1..fetch.n : ftask[k].st = "ok"})
       /\ exp.viewsProcessed >= 1

\* One of two views failed and the call returned viewsProcessed = 1.
C13_OneOfTwoViewsProcessed ==
  /\ exp.pc = "returned"
  /\ fetch.n = 2
  /\ \E k \in 1..fetch.n : ftask[k].st = "failed"
  /\ exp.viewsProcessed = 1

\* The position after each step of processExport that went well, and the
\* errors the step at a position can end with.
NextStep ==
  [start |-> "fetching", fetching |-> "config", config |-> "build",
   build |-> "send", send |-> "returned"]
StepErrors ==
  [start |-> {"UseCaseNotFound"}, fetching |-> {"FetchFailed", "NoViewData"},
   config |-> {"ViewDataRequired"}, build |-> {"BuildFailed"},
   send |-> {"EmailFailed"}]

\* C25: processExport takes its steps in order (lookup and view configs,
\* fetch, transform, assemble, render, send), returns only after the success
\* e-mail was sent, and a step that fails ends the call with the error of
\* that step, unchanged, with no later step taken: nothing is assembled or
\* sent after the failure.
C25_StepsInOrderErrorsUnchanged ==
  [][exp'.pc # exp.pc =>
       /\ exp.pc \in DOMAIN NextStep
       /\ exp'.pc \in {NextStep[exp.pc], "threw"}
       /\ exp'.pc = "threw" =>
            /\ exp'.err \in StepErrors[exp.pc]
            /\ exp'.assembled = exp.assembled
            /\ ~exp'.emailed
       /\ exp'.pc # "threw" => exp'.err = "none"
       /\ exp'.pc = "returned" => exp'.assembled /\ exp'.emailed
       /\ exp'.emailed => exp'.pc = "returned"
       /\ exp'.assembled => exp'.pc \in {"build", "send", "returned", "threw"}
    ]_vars

\* createSlidesAsBuffer resolved, sendEmail rejected, and the call threw the
\* e-mail error with no success e-mail recorded.
C25_EmailErrorPropagated ==
  /\ exp.pc = "threw"
  /\ exp.err = "EmailFailed"
  /\ exp.assembled
  /\ ~exp.emailed

----------------------------------------------------------------------------
\* Claims about startWorker / stopWorker (checked under SpecWorker).

\* C14: a worker instance never has more than `concurrency` jobs executing at
\* the same time, whatever the sequence of startWorker and stopWorker calls.
C14_AtMostConcurrencyExecuting ==
  Cardinality({l \in WorkerLoopIds : wk.loops[l] = "executing"})
    <= wk.concurrency

----------------------------------------------------------------------------
\* More claims about the token cache (checked under SpecAuth).

\* C15: a getValidToken call returns the cached entry, without authenticating,
\* if and only if a token is cached for the site and now is more than 10
\* minutes before its expiresAt; and expiresAt is only ever set by a
\* successful authenticate of that site, to 2 hours after it.
C15_CacheHitOnlyWhenFresh ==
  [][/\ \A c \in Callers :
          (caller[c].pc = "idle" /\ caller'[c].pc # "idle") =>
            LET site == caller'[c].site
                fresh == /\ authCache[site].token # 0
                         /\ authClock.now < authCache[site].expiresAt - 10 * 60
            IN  /\ caller'[c].pc = "token" <=> fresh
                /\ fresh => /\ caller'[c].got = authCache[site].token
                            /\ authCalls' = authCalls
     /\ \A site \in Sites :
          authCache'[site] # authCache[site] =>
            /\ authCache'[site].expiresAt = authClock.now + 2 * 60 * 60
            /\ \E p \in CallIds : /\ authCalls[p].site = site
                                  /\ authCalls[p].st = "inflight"
                                  /\ authCalls'[p].st = "fulfilled"
    ]_vars

\* Some time after the sign-in a caller was served from the cache.
C15_ServedFromCache ==
  \E c \in Callers :
    /\ caller[c].pc = "token"
    /\ caller[c].awaits = NoPromise
    /\ caller[c].got = authCache[caller[c].site].token
    /\ authClock.now > 0

----------------------------------------------------------------------------
\* Claims about the credentials of a sign-in (checked under SpecCred).

\* C16: the sign-in for a site uses <SITE_UPPER>_PAT_NAME and
\* <SITE_UPPER>_PAT_SECRET of that site (upper-cased, hyphens as underscores)
\* when they are set, and the global name / secret only when they are not.
C16_SiteCredentialsFirst ==
  cred.pc = "signin" =>
    LET isSite == cred.env.key = SiteKeyOf(cred.site) IN
      /\ cred.used.patName =
           IF isSite /\ cred.env.hasName
           THEN SiteCredential(SiteKeyOf(cred.site)) ELSE GlobalCredential
      /\ cred.used.patSecret =
           IF isSite /\ cred.env.hasSecret
           THEN SiteCredential(SiteKeyOf(cred.site)) ELSE GlobalCredential

----------------------------------------------------------------------------
\* Claims about shutdown

EventsAt(name) == {i \in 1..Len(shut.events) : shut.events[i] = name}

\* Every occurrence of `later` has an occurrence of `earlier` before it.
Precedes(earlier, later) ==
  \A j \in EventsAt(later) : \E i \in EventsAt(earlier) : i < j

\* C17: on a signal the web process stops the listener, then attempts the
\* close of the job service, then exits with code 0, in that order; it never
\* exits 0 without the close having been attempted; and it is gone, with
\* code 0 or by the forced non-zero exit, no later than 10 s after the signal.
C17_ShutdownStepsInOrder ==
  /\ Precedes("listenerStopped", "jobServiceClose")
  /\ Precedes("jobServiceClose", "exit0")
  /\ (shut.exited /\ shut.code = 0) =>
       /\ ~shut.listening
       /\ shut.closeOutcome # "none"
       /\ shut.exitAt <= shut.signalAt + 10
  /\ (shut.exited /\ shut.exitAt > shut.signalAt + 10) => shut.code # 0
  /\ (~shut.exited /\ shut.signals > 0) => shut.now <= shut.signalAt + 10
  /\ (shut.exited /\ shut.code # 0) => shut.exitAt >= shut.signalAt + 10

\* A shutdown that ran to the graceful end.
C17_ExitedZeroAfterClose ==
  /\ shut.exited
  /\ shut.code = 0
  /\ shut.events = <<"listenerStopped", "jobServiceClose", "exit0">>

\* C18: a worker that exits 0 after a shutdown signal has recorded the
\* outcome of the job it was executing: no job is left in the processing
\* state, and the Redis connection is not closed under an executing job.
C18_NoJobLeftProcessing ==
  /\ (drain.exited /\ drain.code = 0) => drain.job # "processing"
  /\ drain.redis # "open" => ~drain.executing

----------------------------------------------------------------------------
\* Claims about the job endpoints (checked under SpecJobApi).

\* The step in which retry client c answers a request it had checked.
RetryAnswered(c) == breq[c].pc = "checked" /\ breq'[c].pc = "idle"

\* C19: a retry request moves a job back to waiting only when the state it
\* read is failed, keeping attemptsMade and touching no other job; a request
\* that read any other state is answered 400 and changes nothing; a request
\* for an unknown id is answered 404, goes no further and changes nothing;
\* and a failed job leaves that state only by a retry answered 200.
C19_RetryOnlyFromFailed ==
  [][/\ \A c \in DOMAIN breq :
          /\ RetryAnswered(c) =>
               LET j == breq[c].jid IN
                 /\ breq'[c].code \in {200, 400, 500}
                 /\ breq[c].state # "failed" =>
                      breq'[c].code = 400 /\ bjobs' = bjobs
                 /\ breq'[c].code # 200 => bjobs' = bjobs
                 /\ breq'[c].code = 200 =>
                      /\ bjobs[j].state = "failed"
                      /\ bjobs'[j].state = "waiting"
                      /\ bjobs'[j].attemptsMade = bjobs[j].attemptsMade
                      /\ \A k \in BullIds \ {j} : bjobs'[k] = bjobs[k]
          /\ (breq[c].pc = "idle" /\ breq'[c].pc = "checked") =>
               /\ bjobs[breq'[c].jid] # NoBullJob
               /\ bjobs' = bjobs
          /\ (breq[c].pc = "idle" /\ breq'[c].pc = "idle"
                /\ breq'[c] # breq[c]) =>
               /\ breq'[c].code = 404
               /\ bjobs[breq'[c].jid] = NoBullJob
               /\ bjobs' = bjobs
     /\ \A j \in BullIds :
          (bjobs[j].state = "failed" /\ bjobs'[j] # bjobs[j]) =>
            \E c \in DOMAIN breq :
              RetryAnswered(c) /\ breq[c].jid = j /\ breq'[c].code = 200
    ]_vars

\* A failed job was retried: it waits with all its attempts made.
C19_FailedJobRetried ==
  \E c \in DOMAIN breq :
    /\ breq[c].code = 200
    /\ bjobs[breq[c].jid].state = "waiting"
    /\ bjobs[breq[c].jid].attemptsMade = bjobs[breq[c].jid].attempts

\* C20: the status request of an existing job is answered 200 with one of
\* pending, processing, completed, failed: pending for waiting, delayed and
\* paused, processing for active, completed for completed, failed for failed.
C20_StatusIsLegacyStatus ==
  /\ \A s \in QueueStates :
       /\ mapBullMQStateToLegacyStatus(s) \in LegacyStatuses
       /\ s \in {"waiting", "delayed", "paused"} =>
            mapBullMQStateToLegacyStatus(s) = "pending"
  /\ bhist.got.code = 404 => bjobs[bhist.got.jid] = NoBullJob
  /\ bhist.got.code = 200 =>
       /\ bhist.got.state \in QueueStates
       /\ bhist.got.status \in LegacyStatuses
       /\ bhist.got.state \in {"waiting", "delayed", "paused"} =>
            bhist.got.status = "pending"
       /\ bhist.got.state = "active" => bhist.got.status = "processing"
       /\ bhist.got.state = "completed" => bhist.got.status = "completed"
       /\ bhist.got.state = "failed" => bhist.got.status = "failed"

\* The status of a delayed job was asked for and reported as pending.
C20_DelayedReportedPending ==
  /\ bhist.got.code = 200
  /\ bhist.got.state = "delayed"
  /\ bhist.got.status = "pending"

----------------------------------------------------------------------------
\* Claims about the health endpoints (checked under SpecReady).

\* C21: the readiness endpoint answers 200 only with statistics that were
\* counted from answered Redis commands; when a command was rejected the
\* answer is 503.
C21_ReadyOnlyWithRealStats ==
  /\ ready.code = 200 => ready.stats = "counted"
  /\ (ready.pc = "idle" /\ ready.stats = "zeros") => ready.code = 503

----------------------------------------------------------------------------
\* More claims about JobService (checked under SpecJob).

\* C22: attempts counts every attempt executed, the successful one included:
\* a completed job has been executed at least once, so its attempts is at
\* least 1.
C22_AttemptsCountsEveryExecution ==
  \A j \in JobIds :
    (store[j] # NoJob /\ store[j].status = "completed") =>
      store[j].attempts >= 1

\* C23: job:queue is first in, first out: every job enters at the tail, a
\* retried job included, the lease takes the head, and nothing else changes
\* the list; so a job that entered before another is leased before it.
C23_QueueIsFifo ==
  [][/\ queue' # queue =>
          \/ queue # <<>> /\ queue' = Tail(queue)
          \/ \E j \in JobIds : queue' = Append(queue, j)
     /\ nextId' # nextId => queue' = Append(queue, nextId)
     /\ \A l \in Loops :
          /\ (loop[l].pc = "idle" /\ loop'[l].pc # "idle") =>
               /\ queue # <<>>
               /\ loop'[l].jid = Head(queue)
               /\ queue' = Tail(queue)
          /\ (loop[l].pc = "failPush" /\ loop'[l].pc # "failPush") =>
               queue' = Append(queue, loop[l].jid)
    ]_vars

\* A retried job waits behind a job that was waiting when it re-entered.
C23_RetriedJobBehindWaitingJob ==
  /\ Len(queue) = 2
  /\ queue[1] # queue[2]
  /\ store[queue[1]].attempts = 0
  /\ store[queue[2]].attempts >= 1

\* removeOnFail.age of the queue options: 7 * 24 * 60 * 60 seconds.
FAILED_RETENTION_SEC == 604800

\* The time of the last write of a record: every write sets EX 24 h.
WrittenAt(job) == job.expireAt - JOB_TTL_SECONDS

\* C24: retention never removes the record of a job that is waiting (its id
\* is in job:queue) or active (its id is in job:processing), and the record
\* of a failed job stays readable for at least 7 days after the failure.
C24_RecordKeptWhileWaitingOrFailed ==
  \A j \in JobIds :
    /\ ((\E i \in DOMAIN queue : queue[i] = j) \/ j \in processing) =>
         getJobById(j) # NoJob
    /\ (/\ store[j] # NoJob
        /\ store[j].status = "failed"
        /\ now < WrittenAt(store[j]) + FAILED_RETENTION_SEC) =>
         getJobById(j) # NoJob

----------------------------------------------------------------------------
\* Claims about DataTransformerService (checked under SpecTransform and
\* SpecTransformMap).

\* The tables of the result, with the views they were made from.
TablesOut == {k \in DOMAIN tf.out : tf.out[k].kind = "table"}

C27_MissingColumnContributesNothing ==
  \A k \in TablesOut :
    LET table == tf.out[k]
        view == tf.views[k]
    IN \A f \in DOMAIN view.needed :
         (view.needed[f] /\ \A i \in DOMAIN Head(view.allRows) :
                               Head(view.allRows)[i] # f) =>
           /\ \A h \in DOMAIN table.headers : table.headers[h].field # f
           /\ \A r \in DOMAIN table.rows :
                \A c \in DOMAIN table.rows[r] : table.rows[r][c].field # f

\* C29: transformViewDataMap returns, whatever the views; its result has an
\* entry for exactly the views whose transformTableauData gave a value, the
\* entry is that value, and an entry once written is not touched by the
\* views after it.
C29_ResultIsSuccessfulViews ==
  [][/\ \A k \in DOMAIN tf.out :
          tf.out[k] # NotSet => tf'.out[k] = tf.out[k]
     /\ tf'.pc = "returned" =>
          \A k \in DOMAIN tf'.views :
            tf'.out[k] =
              IF transformTableauData(tf'.views[k]) = NullResult
              THEN NotSet
              ELSE transformTableauData(tf'.views[k])
    ]_vars

\* The call returned a result with the second of two views and without the
\* first, which has no view config.
C29_OneViewExcluded ==
  /\ tf.pc = "returned"
  /\ Len(tf.views) = 2
  /\ ~tf.views[1].hasConfig
  /\ tf.out[1] = NotSet
  /\ tf.out[2].kind = "table"

NoEmptyRow(grid) ==
  \A r \in DOMAIN grid : \E c \in DOMAIN grid[r] : grid[r][c] # <<>>

\* C28: a grid with no row that is entirely empty, whose cells may hold
\* commas, quotes and line breaks, written as RFC 4180 CSV and parsed by
\* _parseCsvToRows gives the rows and cells of the grid, in order.
C28_CsvRoundTrip ==
  (csv.pc = "parsed" /\ NoEmptyRow(csv.grid)) => csv.rows = csv.grid

\* A grid of two rows with a quote, a comma and a line break in its cells
\* was written and parsed back.
C28_QuotedCellsParsedBack ==
  /\ csv.pc = "parsed"
  /\ csv.grid = <<<<<<"\"">>, <<",">>>>, <<<<"\n">>>>>>
  /\ csv.rows = csv.grid

----------------------------------------------------------------------------
\* Claims about slide assembly (checked under SpecAssembly).

\* C30: every row of a table element that was emitted, the header row and
\* each data row, has exactly headers.length cells, and there is one data
\* row per input row, whatever the lengths of the input rows.
C30_EmittedRowsHaveHeaderLength ==
  (asm.pc = "rendered" /\ asm.table # NoTable) =>
    /\ Len(asm.table) = 1 + Len(asm.data.rows)
    /\ \A r \in DOMAIN asm.table :
         Len(asm.table[r]) = Len(asm.data.headers)
    /\ \A c \in DOMAIN asm.table[1] : asm.table[1][c].isHeader

\* A table of two columns was emitted from a short row and a long row.
C30_ShortAndLongRowEmitted ==
  /\ asm.pc = "rendered"
  /\ Len(asm.data.headers) = 2
  /\ Len(asm.data.rows) = 2
  /\ Len(asm.data.rows[1]) < 2
  /\ Len(asm.data.rows[2]) > 2
  /\ Len(asm.table) = 3

----------------------------------------------------------------------------
\* Claims about getPptConfig (checked under SpecDeck).

CountOf(seq, type) == Cardinality({e \in DOMAIN seq : seq[e].type = type})

\* C31: when the view of a TEXT element is missing, the element is emitted
\* with the fallback of its part if the part has one and is dropped
\* otherwise: a slide has the fallback text of every part that has one, and
\* no TEXT element without any text part.
C31_MissingValueFallbackOrDropped ==
  (deck.engine = "generic" /\ DataKey \notin deck.viewData) =>
    \A s \in DOMAIN deck.slides :
      /\ \A e \in DOMAIN deck.manifest[s] :
           LET element == deck.manifest[s][e]
           IN (element.type = "TEXT" /\ element.hasContent
                 /\ \E p \in DOMAIN element.content :
                      /\ element.content[p].kind = "value"
                      /\ element.content[p].fallback) =>
                \E r \in DOMAIN deck.slides[s] :
                  /\ deck.slides[s][r].type = "TEXT"
                  /\ \E p \in DOMAIN deck.slides[s][r].text :
                       deck.slides[s][r].text[p].text = "fallback"
      /\ \A r \in DOMAIN deck.slides[s] :
           deck.slides[s][r].type = "TEXT" => deck.slides[s][r].text # <<>>

----------------------------------------------------------------------------
\* Claims about the lease and the stuck-job cleanup of JobService (checked
\* under SpecJob and SpecStuck).

\* C33: the id of a job that is neither completed nor failed is on the
\* waiting list or in the processing set, in every state.
C33_LeasedJobNeverLost ==
  \A j \in JobIds :
    (store[j] # NoJob /\ store[j].status \notin {"completed", "failed"}) =>
      (InQueue(j) \/ j \in processing)

\* No processLoop invocation has the job in hand.
Orphaned(j) == \A l \in Loops : loop[l].jid # j

\* C34: a cleanup run that comes to an id that has been in the processing
\* set for longer than the stall window (30 min), with a record that is
\* neither completed nor failed and no worker at work on it, goes on to put
\* it back on the waiting list; and it puts back no id that has been in the
\* set for less than the window.
C34_StalledJobIsRequeued ==
  [][(cleaner.pc = "next" /\ cleaner'.todo # cleaner.todo
        /\ cleaner'.pc # "idle"
        /\ getJobById(cleaner'.jid) # NoJob
        /\ getJobById(cleaner'.jid).status \notin {"completed", "failed"}) =>
       /\ (Orphaned(cleaner'.jid)
             /\ cleaner.at - leasedAt[cleaner'.jid] > MaxProcessingTimeSec) =>
            cleaner'.pc = "stuckSrem"
       /\ cleaner'.pc = "stuckSrem" =>
            cleaner.at - leasedAt[cleaner'.jid] > MaxProcessingTimeSec
    ]_vars

\* C38: no job has more than one report email sent for it.
C38_AtMostOneReportEmail ==
  \A j \in JobIds : delivered[j] <= 1

\* C39: a step of a cleanup run changes job:processing only by removing the
\* id it is at; an id it reads with a missing, completed or failed record is
\* removed from the set; it writes no record that is completed or failed and
\* puts no such job on the waiting list; and after its step no id is both on
\* the waiting list and in the processing set, or twice on the waiting list.
C39_CleanupTouchesOnlyStaleEntries ==
  [][cleaner' # cleaner =>
       /\ nextId' = nextId
       /\ processing' \in {processing, processing \ {cleaner.jid}}
       /\ (cleaner.pc = "next" /\ cleaner'.todo # cleaner.todo
             /\ (getJobById(cleaner'.jid) = NoJob
                   \/ getJobById(cleaner'.jid).status
                        \in {"completed", "failed"})) =>
            cleaner'.pc = "srem"
       /\ cleaner.pc = "srem" => cleaner.jid \notin processing'
       /\ (store' # store \/ queue' # queue) =>
            /\ getJobById(cleaner.jid) # NoJob
            /\ getJobById(cleaner.jid).status \notin {"completed", "failed"}
       /\ \A j \in JobIds :
            /\ ~(j \in processing'
                   /\ \E i \in DOMAIN queue' : queue'[i] = j)
            /\ Cardinality({i \in DOMAIN queue' : queue'[i] = j}) <= 1
    ]_vars

----------------------------------------------------------------------------
\* Claims about the callers of one refresh of TableauService (checked under
\* SpecAuth and SpecAuthSites).

\* The outcome of authenticate call p as a caller awaiting it receives it.
OutcomeOf(p) ==
  IF authCalls[p].st = "doneOk" THEN [pc |-> "token", got |-> p]
  ELSE [pc |-> "error", got |-> 0]

\* C35: a getValidToken call that finds a refresh of its site in progress
\* awaits that refresh, and every caller that awaited a refresh has its
\* outcome: the token that refresh obtained, or its error.
C35_JoinersGetOutcomeOfSameRefresh ==
  /\ [][\A c \in Callers :
          (caller[c].pc = "idle" /\ caller'[c].pc = "waiting"
             /\ authPromises[caller'[c].site] # NoPromise) =>
            caller'[c].awaits = authPromises[caller'[c].site]]_vars
  /\ [](\A c \in Callers :
          (caller[c].pc \in {"token", "error"}
             /\ caller[c].awaits # NoPromise) =>
            /\ authCalls[caller[c].awaits].st \in {"doneOk", "doneErr"}
            /\ caller[c].pc = OutcomeOf(caller[c].awaits).pc
            /\ caller[c].got = OutcomeOf(caller[c].awaits).got)

\* Two callers awaited the same refresh and both have its token.
C35_TwoCallersOneToken ==
  \E c, d \in Callers :
    /\ c # d
    /\ caller[c].awaits # NoPromise
    /\ caller[c].awaits = caller[d].awaits
    /\ caller[c].pc = "token" /\ caller[d].pc = "token"
    /\ caller[c].got = caller[d].got

\* C36: a failing authenticate call leaves the token cache as it was; once
\* its failure is delivered the pending entry of its site no longer names it,
\* and the next getValidToken call for that site sends a sign-in request of
\* its own; a cache entry or pending entry changes only in a step of an
\* authenticate call for the same site.
C36_FailedSignInLeavesNoTrace ==
  /\ [][/\ \A p \in CallIds :
             (authCalls'[p] # authCalls[p]
                /\ authCalls'[p].st \in {"rejected", "doneErr"}) =>
               authCache' = authCache
        /\ \A c \in Callers :
             (caller[c].pc = "idle" /\ caller'[c].pc # "idle"
                /\ (\E p \in CallIds : authCalls[p].st = "doneErr"
                                         /\ authCalls[p].site = caller'[c].site)
                /\ ~(\E p \in CallIds :
                       /\ authCalls[p].st \in {"inflight", "fulfilled", "rejected"}
                       /\ authCalls[p].site = caller'[c].site)
                /\ ~CacheValid(authCache[caller'[c].site], authClock.now)) =>
               \E q \in CallIds :
                 /\ authCalls[q].st = "unused"
                 /\ authCalls'[q] = [site |-> caller'[c].site, st |-> "inflight"]
                 /\ caller'[c].awaits = q
                 /\ authPromises'[caller'[c].site] = q
        /\ \A s \in AllSites :
             (authCache'[s] # authCache[s]
                \/ authPromises'[s] # authPromises[s]) =>
               \E p \in CallIds : /\ authCalls'[p] # authCalls[p]
                                  /\ authCalls'[p].site = s
       ]_vars
  /\ [](\A p \in CallIds :
          authCalls[p].st = "doneErr" => authPromises[authCalls[p].site] # p)

\* After a failed sign-in for a site a second sign-in for the same site is
\* out, and nothing is cached for the site.
C36_SignInAgainAfterFailure ==
  \E p, q \in CallIds :
    /\ authCalls[p].st = "doneErr"
    /\ authCalls[q] = [site |-> authCalls[p].site, st |-> "inflight"]
    /\ authPromises[authCalls[p].site] = q
    /\ authCache[authCalls[p].site].token = 0

----------------------------------------------------------------------------
\* Claims about the batch loop of fetchViewsDataInParallel for any
\* concurrency (checked under SpecFetchAny).

\* C37: for every concurrency the call ends, by returning or throwing; when
\* it returns every view config has been attempted, and no batch holds a view
\* config that was attempted before.
C37_TerminatesEachViewOnce ==
  /\ <>(fetch.pc \in {"returned", "threw"})
  /\ [](fetch.pc = "returned" => \A k \in 1..fetch.n : Settled(k))
  /\ [][(fetch.pc = "loop" /\ fetch'.pc = "awaiting") =>
          \A k \in BatchOf(fetch.i, fetch.concurrency, fetch.n) :
            ftask[k] = NoTask]_vars

====
